---- MODULE Spec2Model ----
(***************************************************************************)
(* gh-skyline: generation of the STL model of a contribution skyline.      *)
(*                                                                         *)
(* The module models internal/stl's GenerateSTLRange (validation,          *)
(* dimensions, the concurrent fan-out/fan-in of generateModelGeometry with *)
(* its four producer goroutines, the merge of character.stl and the file   *)
(* write) together with the helpers it calls.                              *)
(*                                                                         *)
(* Lengths are integers in thousandths of a millimetre (0.5 mm = 500), so  *)
(* that the code's float64 arithmetic becomes exact integer arithmetic.    *)
(* Strings that the code formats or rasterizes are sequences of one-       *)
(* character strings.                                                      *)
(***************************************************************************)
EXTENDS Integers, Sequences, FiniteSets, TLC

(***************************************************************************)
(* Bounds of the model.                                                    *)
(***************************************************************************)
\* Most years handed to GenerateSTLRange.
MaxYears == 2

(***************************************************************************)
(* Constants of the geometry package. Its source file is not part of the   *)
(* sources at hand; the values stand in for it (GridSize is kept small so  *)
(* that a grid of more than GridSize weeks is a small grid).               *)
(***************************************************************************)
GridSize == 1
CellSize == 2500
BaseHeight == 10000
MaxHeight == 25000
YearOffset == 17500
YearSpacing == 0
\* A box is 12 triangles (estimateTriangleCount counts 12 per box).
TrianglesPerBox == 12
\* text.go
baseWidthVoxelResolution == 2000
voxelDepth == 1000

(***************************************************************************)
(* Errors (internal/errors): an error has the kind of its root cause and   *)
(* the chain of messages wrapped around it, outermost first.               *)
(***************************************************************************)
NoErr == [kind |-> "nil", chain |-> <<>>]

IsErr(e) == e.kind # "nil"

\* errors.New(kind, message, cause)
NewErr(kind, msg, cause) ==
    [kind |-> kind, chain |-> <<msg>> \o cause.chain]

\* errors.Wrap(err, message): the kind of err is kept
Wrap(err, msg) ==
    IF IsErr(err) THEN [kind |-> err.kind, chain |-> <<msg>> \o err.chain]
    ELSE NoErr

\* the error a failing logger call returns
LogErr == [kind |-> "LogError", chain |-> <<"log write failed">>]

\* the error a failing file operation returns
FileErr == [kind |-> "FileError", chain |-> <<"file operation failed">>]

(***************************************************************************)
(* types.Point3D, types.Triangle and the box primitive.                    *)
(***************************************************************************)
Point3D(x, y, z) == [X |-> x, Y |-> y, Z |-> z]

Triangle(n, a, b, c) == [Normal |-> n, V1 |-> a, V2 |-> b, V3 |-> c]

\* The 12 triangles of the box with corner (x, y, z) and extents (l, t, h).
BoxTriangles(x, y, z, l, t, h) ==
    LET p(i, j, k) == Point3D(x + i * l, y + j * t, z + k * h)
        quad(n, a, b, c, d) == << Triangle(n, a, b, c), Triangle(n, a, c, d) >>
    IN  quad(Point3D(0, -1, 0), p(0,0,0), p(1,0,0), p(1,0,1), p(0,0,1))
     \o quad(Point3D(0, 1, 0),  p(0,1,0), p(0,1,1), p(1,1,1), p(1,1,0))
     \o quad(Point3D(-1, 0, 0), p(0,0,0), p(0,0,1), p(0,1,1), p(0,1,0))
     \o quad(Point3D(1, 0, 0),  p(1,0,0), p(1,1,0), p(1,1,1), p(1,0,1))
     \o quad(Point3D(0, 0, 1),  p(0,0,1), p(1,0,1), p(1,1,1), p(0,1,1))
     \o quad(Point3D(0, 0, -1), p(0,0,0), p(0,1,0), p(1,1,0), p(1,0,0))

\* geometry.CreateCube: fails on a non-positive extent
CreateCube(x, y, z, l, t, h) ==
    IF l <= 0 \/ t <= 0 \/ h <= 0
    THEN [triangles |-> <<>>,
          err |-> NewErr("GeometryError", "dimensions must be positive", NoErr)]
    ELSE [triangles |-> BoxTriangles(x, y, z, l, t, h), err |-> NoErr]

\* geometry.CreateColumn: a box of footprint size x size standing on z = 0
CreateColumn(x, y, height, size) == CreateCube(x, y, 0, size, size, height)

\* geometry.CreateCuboidBase: the slab under z = 0
CreateCuboidBase(width, depth) ==
    CreateCube(0, 0, 0 - BaseHeight, width, depth, BaseHeight)

\* geometry.NormalizeContribution: the height of a column
NormalizeContribution(count, maxContrib) ==
    IF count <= 0 THEN 0
    ELSE IF maxContrib <= 0 THEN CellSize
    ELSE CellSize + (count * (MaxHeight - CellSize)) \div maxContrib

\* geometry.CalculateMultiYearDimensions
CalculateMultiYearDimensions(yearCount) ==
    [width |-> GridSize * CellSize,
     depth |-> yearCount * (YearOffset + YearSpacing)]

\* The concatenation of a sequence of sequences.
RECURSIVE Flatten(_)
Flatten(ss) == IF ss = <<>> THEN <<>> ELSE Head(ss) \o Flatten(Tail(ss))

(***************************************************************************)
(* Contribution grids: a year is a sequence of weeks, a week a sequence of *)
(* types.ContributionDay.                                                  *)
(***************************************************************************)
ContributionDay(date, count) == [Date |-> date, ContributionCount |-> count]

\* The grid of n weeks of two days, the first of which is active in every
\* other week.
Grid(n) ==
    [w \in 1..n |->
        << ContributionDay("2023-01-01", w % 2), ContributionDay("2023-01-02", w) >>]

\* The grids of the first year: from no week to one week more than GridSize.
Grids == { Grid(n) : n \in 0..(GridSize + 1) }

\* The grids of a later year.
LaterGrids == { Grid(1), Grid(GridSize + 1) }

\* The cells of a grid in week-major, then day order.
Cells(grid) ==
    Flatten([w \in 1..Len(grid) |->
                [d \in 1..Len(grid[w]) |->
                    [week |-> w - 1, day |-> d - 1, cell |-> grid[w][d]]]])

(***************************************************************************)
(* internal/stl: the helpers of GenerateSTLRange.                          *)
(***************************************************************************)
\* validateInput without its check of the output path
validateInputWithoutPath(contributions, outputPath, username) ==
    IF Len(contributions) = 0
    THEN NewErr("ValidationError", "contributions data cannot be empty", NoErr)
    ELSE IF Len(contributions) > GridSize
    THEN NewErr("ValidationError", "contributions data exceeds maximum grid size", NoErr)
    ELSE IF username = <<>>
    THEN NewErr("ValidationError", "username cannot be empty", NoErr)
    ELSE NoErr

\* validateInput without its check of the username
validateInputWithoutUsername(contributions, outputPath, username) ==
    IF Len(contributions) = 0
    THEN NewErr("ValidationError", "contributions data cannot be empty", NoErr)
    ELSE IF Len(contributions) > GridSize
    THEN NewErr("ValidationError", "contributions data exceeds maximum grid size", NoErr)
    ELSE IF outputPath = ""
    THEN NewErr("ValidationError", "output path cannot be empty", NoErr)
    ELSE NoErr

validateInput(contributions, outputPath, username) ==
    IF Len(contributions) = 0
    THEN NewErr("ValidationError", "contributions data cannot be empty", NoErr)
    ELSE IF Len(contributions) > GridSize
    THEN NewErr("ValidationError", "contributions data exceeds maximum grid size", NoErr)
    ELSE IF outputPath = ""
    THEN NewErr("ValidationError", "output path cannot be empty", NoErr)
    ELSE IF username = <<>>
    THEN NewErr("ValidationError", "username cannot be empty", NoErr)
    ELSE NoErr

NoDimensions == [innerWidth |-> 0, innerDepth |-> 0, imagePath |-> ""]

calculateDimensions(yearCount) ==
    IF yearCount <= 0
    THEN [dims |-> NoDimensions,
          err |-> NewErr("ValidationError", "year count must be positive", NoErr)]
    ELSE LET wd == CalculateMultiYearDimensions(yearCount)
         IN  IF wd.width <= 0 \/ wd.depth <= 0
             THEN [dims |-> NoDimensions,
                   err |-> NewErr("ValidationError", "invalid model dimensions", NoErr)]
             ELSE [dims |-> [innerWidth |-> wd.width, innerDepth |-> wd.depth,
                             imagePath |-> "assets/invertocat.png"],
                   err |-> NoErr]

RECURSIVE MaxOf(_, _)
\* the running maximum of the loops of findMaxContributions, started at m
MaxOf(ns, m) ==
    IF ns = <<>> THEN m
    ELSE MaxOf(Tail(ns), IF Head(ns) > m THEN Head(ns) ELSE m)

findMaxContributions(contributions) ==
    MaxOf([i \in 1..Len(Cells(contributions)) |->
              Cells(contributions)[i].cell.ContributionCount], 0)

findMaxContributionsAcrossYears(contributionsPerYear) ==
    MaxOf([i \in 1..Len(contributionsPerYear) |->
              findMaxContributions(contributionsPerYear[i])], 0)

(***************************************************************************)
(* Columns. CreateContributionGeometry builds the columns of one year;     *)
(* failing is the set of cells (week, day) whose CreateColumn call fails   *)
(* and logOk tells whether the warning for such a column can be logged.    *)
(***************************************************************************)
RECURSIVE ColumnsOf(_, _, _, _, _)
ColumnsOf(cells, baseYOffset, maxContrib, failing, logOk) ==
    IF cells = <<>> THEN [triangles |-> <<>>, aborted |-> FALSE]
    ELSE LET c == Head(cells)
             height == NormalizeContribution(c.cell.ContributionCount, maxContrib)
             x == c.week * CellSize
             y == baseYOffset + c.day * CellSize
             col == IF <<c.week, c.day>> \in failing
                    THEN [triangles |-> <<>>,
                          err |-> NewErr("GeometryError", "column failed", NoErr)]
                    ELSE CreateColumn(x, y, height, CellSize)
             rest == ColumnsOf(Tail(cells), baseYOffset, maxContrib, failing, logOk)
         IN  IF c.cell.ContributionCount > 0
             THEN IF IsErr(col.err)
                  THEN IF ~logOk THEN [triangles |-> <<>>, aborted |-> TRUE]
                       ELSE rest
                  ELSE IF rest.aborted THEN rest
                       ELSE [triangles |-> col.triangles \o rest.triangles,
                             aborted |-> FALSE]
             ELSE rest

\* CreateContributionGeometry giving up the year at the first failing column
CreateContributionGeometryAbortingYear(contributions, yearIndex, maxContrib, failing, logOk) ==
    LET baseYOffset == yearIndex * (YearOffset + YearSpacing)
        r == ColumnsOf(Cells(contributions), baseYOffset, maxContrib, failing, FALSE)
    IN  IF r.aborted THEN <<>> ELSE r.triangles

\* CreateContributionGeometry with every year on the offset of the first
CreateContributionGeometryAtFront(contributions, yearIndex, maxContrib, failing, logOk) ==
    LET r == ColumnsOf(Cells(contributions), 0, maxContrib, failing, logOk)
    IN  IF r.aborted THEN <<>> ELSE r.triangles

CreateContributionGeometry(contributions, yearIndex, maxContrib, failing, logOk) ==
    LET baseYOffset == yearIndex * (YearOffset + YearSpacing)
        r == ColumnsOf(Cells(contributions), baseYOffset, maxContrib, failing, logOk)
    IN  IF r.aborted THEN <<>> ELSE r.triangles

(***************************************************************************)
(* Mesh transforms of the auxiliary mesh.                                  *)
(***************************************************************************)
\* math.MaxFloat64, the seed of calcBoundingBox
MaxFloat64 == 2000000000

Vertices(triangles) ==
    Flatten([i \in 1..Len(triangles) |->
                << triangles[i].V1, triangles[i].V2, triangles[i].V3 >>])

RECURSIVE BoundingBoxFrom(_, _)
BoundingBoxFrom(vs, box) ==
    IF vs = <<>> THEN box
    ELSE LET v == Head(vs)
         IN  BoundingBoxFrom(Tail(vs),
                [minX |-> IF v.X < box.minX THEN v.X ELSE box.minX,
                 minY |-> IF v.Y < box.minY THEN v.Y ELSE box.minY,
                 minZ |-> IF v.Z < box.minZ THEN v.Z ELSE box.minZ,
                 maxX |-> IF v.X > box.maxX THEN v.X ELSE box.maxX,
                 maxY |-> IF v.Y > box.maxY THEN v.Y ELSE box.maxY,
                 maxZ |-> IF v.Z > box.maxZ THEN v.Z ELSE box.maxZ])

\* the bounding box with every bound seeded with 0
calcBoundingBoxFromZero(triangles) ==
    BoundingBoxFrom(Vertices(triangles),
        [minX |-> 0, minY |-> 0, minZ |-> 0, maxX |-> 0, maxY |-> 0, maxZ |-> 0])

calcBoundingBox(triangles) ==
    BoundingBoxFrom(Vertices(triangles),
        [minX |-> MaxFloat64, minY |-> MaxFloat64, minZ |-> MaxFloat64,
         maxX |-> 0 - MaxFloat64, maxY |-> 0 - MaxFloat64, maxZ |-> 0 - MaxFloat64])

translateTriangles(triangles, dx, dy, dz) ==
    [i \in 1..Len(triangles) |->
        LET t == triangles[i]
        IN  Triangle(t.Normal,
                     Point3D(t.V1.X + dx, t.V1.Y + dy, t.V1.Z + dz),
                     Point3D(t.V2.X + dx, t.V2.Y + dy, t.V2.Z + dz),
                     Point3D(t.V3.X + dx, t.V3.Y + dy, t.V3.Z + dz))]

\* the scaling with the normal scaled like the vertices
scaleTrianglesWithNormals(triangles, scale) ==
    [i \in 1..Len(triangles) |->
        LET t == triangles[i]
            m(v) == (v * scale) \div 10
        IN  Triangle(Point3D(m(t.Normal.X), m(t.Normal.Y), m(t.Normal.Z)),
                     Point3D(m(t.V1.X), m(t.V1.Y), m(t.V1.Z)),
                     Point3D(m(t.V2.X), m(t.V2.Y), m(t.V2.Z)),
                     Point3D(m(t.V3.X), m(t.V3.Y), m(t.V3.Z)))]

\* scale is given in tenths (0.7 is 7); coordinates are multiples of 10
scaleTriangles(triangles, scale) ==
    [i \in 1..Len(triangles) |->
        LET t == triangles[i]
            m(v) == (v * scale) \div 10
        IN  Triangle(t.Normal,
                     Point3D(m(t.V1.X), m(t.V1.Y), m(t.V1.Z)),
                     Point3D(m(t.V2.X), m(t.V2.Y), m(t.V2.Z)),
                     Point3D(m(t.V3.X), m(t.V3.Y), m(t.V3.Z)))]

(***************************************************************************)
(* internal/stl/geometry/text.go: the voxel rasterizer.                    *)
(*                                                                         *)
(* Pixel coordinates handed to createVoxelOnFace are in half pixels (the   *)
(* logo is drawn at scale 0.5); fractions of the face (0.1, 0.97, -0.18)   *)
(* are in thousandths.                                                     *)
(***************************************************************************)
\* how a render call finds its fonts: the primary font, only the fallback
\* font, neither, or a font file that LoadFontFace rejects
FontOutcomes == {"primary", "fallback", "none", "badface"}

createVoxelOnFace(x, y, height, baseWidth, baseHeight) ==
    LET xResolution == baseWidthVoxelResolution
        yResolution == (xResolution * baseHeight) \div baseWidth
        sx == (x * baseWidth) \div (2 * xResolution)
        sy == (y * baseHeight) \div (2 * yResolution)
        voxelSizeX == baseWidth \div xResolution
        voxelSizeY == baseHeight \div yResolution
    IN  CreateCube(sx, 0 - height, 0 - voxelSizeY - sy, voxelSizeX, height, voxelSizeY)

createVoxelOnTop(x, y, height, baseWidth, baseDepth, baseHeight) ==
    LET xResolution == baseWidthVoxelResolution
        yResolution == (xResolution * baseDepth) \div baseWidth
        sx == (x * baseWidth) \div xResolution
        sy == baseDepth - (y * baseDepth) \div yResolution
        voxelSizeX == baseWidth \div xResolution
        voxelSizeY == baseDepth \div yResolution
    IN  CreateCube(sx, sy, 0, voxelSizeX, voxelSizeY, height)

\* "left" 0.0, "center" 0.5, "right" 1.0
JustificationPercent(justification) ==
    CASE justification = "center" -> 500
      [] justification = "right" -> 1000
      [] OTHER -> 0

\* gg's DrawStringAnchored followed by the scan for active pixels: a font of
\* one pixel per character, anchored at (ax, ay); the pixels inside the
\* w x h canvas, in the order of the loops (x ascending, then y ascending).
ActivePixels(text, justification, ax, ay, w, h) ==
    LET x0 == ax - (JustificationPercent(justification) * Len(text)) \div 1000
        all == [i \in 1..Len(text) |-> [x |-> x0 + i - 1, y |-> ay]]
        inside(p) == p.x >= 0 /\ p.x < w /\ p.y >= 0 /\ p.y < h
    IN  SelectSeq(all, inside)

RECURSIVE VoxelsSkippingFailures(_)
\* the voxel loop leaving out the pixels whose box cannot be built
VoxelsSkippingFailures(cubes) ==
    IF cubes = <<>> THEN [triangles |-> <<>>, err |-> NoErr]
    ELSE LET rest == VoxelsSkippingFailures(Tail(cubes))
         IN  IF IsErr(Head(cubes).err) THEN rest
             ELSE [triangles |-> Head(cubes).triangles \o rest.triangles,
                   err |-> NoErr]

RECURSIVE Voxels(_)
\* the voxel loop: the boxes of all pixels, or the error of the first failure
Voxels(cubes) ==
    IF cubes = <<>> THEN [triangles |-> <<>>, err |-> NoErr]
    ELSE IF IsErr(Head(cubes).err)
    THEN [triangles |-> <<>>,
          err |-> NewErr("STLError", "failed to create cube", Head(cubes).err)]
    ELSE LET rest == Voxels(Tail(cubes))
         IN  IF IsErr(rest.err) THEN rest
             ELSE [triangles |-> Head(cubes).triangles \o rest.triangles,
                   err |-> NoErr]

FontError(font) ==
    CASE font = "none" -> NewErr("IOError", "failed to load any fonts", FileErr)
      [] font = "badface" -> NewErr("IOError", "failed to load font", FileErr)
      [] OTHER -> NoErr

renderText(text, justification, leftOffsetPercent, fontSize, baseWidth, baseHeight, font) ==
    LET faceWidthRes == baseWidthVoxelResolution
        faceHeightRes == (faceWidthRes * baseHeight) \div baseWidth
        pixels == ActivePixels(text, justification,
                               (faceWidthRes * leftOffsetPercent) \div 1000,
                               (faceHeightRes * 500) \div 1000,
                               faceWidthRes, faceHeightRes)
    IN  IF IsErr(FontError(font))
        THEN [triangles |-> <<>>, err |-> FontError(font)]
        ELSE Voxels([i \in 1..Len(pixels) |->
                        createVoxelOnFace(2 * pixels[i].x, 2 * pixels[i].y,
                                          voxelDepth, baseWidth, baseHeight)])

renderTextOnTop(text, justification, leftOffsetPercent, topOffsetPercent, fontSize, baseWidth, baseDepth, baseHeight, font) ==
    LET faceWidthRes == baseWidthVoxelResolution
        faceDepthRes == (faceWidthRes * baseDepth) \div baseWidth
        pixels == ActivePixels(text, justification,
                               (faceWidthRes * leftOffsetPercent) \div 1000,
                               (faceDepthRes * topOffsetPercent) \div 1000,
                               faceWidthRes, faceDepthRes)
    IN  IF IsErr(FontError(font))
        THEN [triangles |-> <<>>, err |-> FontError(font)]
        ELSE Voxels([i \in 1..Len(pixels) |->
                        createVoxelOnTop(pixels[i].x, pixels[i].y, voxelDepth,
                                         baseWidth, baseDepth, baseHeight)])

\* Create3DText without the render of the caption
Create3DTextWithoutCaption(username, year, baseWidth, baseHeight, baseDepth, additionalText, fonts) ==
    LET user == IF username # <<>>
                THEN renderText(username, "left", 100, 120, baseWidth, baseHeight,
                                fonts.user)
                ELSE [triangles |-> <<>>, err |-> NoErr]
        top == IF additionalText # <<>>
               THEN renderTextOnTop(additionalText, "center", 500, 500, 150,
                                    baseWidth, baseDepth, baseHeight, fonts.top)
               ELSE [triangles |-> <<>>, err |-> NoErr]
    IN  IF IsErr(user.err) THEN [triangles |-> <<>>, err |-> user.err]
        ELSE IF IsErr(top.err) THEN [triangles |-> <<>>, err |-> top.err]
        ELSE [triangles |-> user.triangles \o top.triangles, err |-> NoErr]

\* fonts gives the font outcome of each of the three render calls
Create3DText(username, year, baseWidth, baseHeight, baseDepth, additionalText, fonts) ==
    LET user == IF username # <<>>
                THEN renderText(username, "left", 100, 120, baseWidth, baseHeight,
                                fonts.user)
                ELSE [triangles |-> <<>>, err |-> NoErr]
        yearR == renderText(year, "right", 970, 100, baseWidth, baseHeight, fonts.year)
        top == IF additionalText # <<>>
               THEN renderTextOnTop(additionalText, "center", 500, 500, 150,
                                    baseWidth, baseDepth, baseHeight, fonts.top)
               ELSE [triangles |-> <<>>, err |-> NoErr]
    IN  IF IsErr(user.err) THEN [triangles |-> <<>>, err |-> user.err]
        ELSE IF IsErr(yearR.err) THEN [triangles |-> <<>>, err |-> yearR.err]
        ELSE IF IsErr(top.err) THEN [triangles |-> <<>>, err |-> top.err]
        ELSE [triangles |-> user.triangles \o yearR.triangles \o top.triangles,
              err |-> NoErr]

(***************************************************************************)
(* Images: a decoded image of w x h pixels with 16-bit red and alpha       *)
(* channels, or a file on which os.Open or png.Decode fails.               *)
(***************************************************************************)
Pixel(r, a) == [r |-> r, a |-> a]

Image(w, h, px) == [status |-> "ok", w |-> w, h |-> h, px |-> px]

\* a file that cannot be opened ("missing") or decoded ("corrupt")
BadImage(status) == [status |-> status, w |-> 0, h |-> 0, px |-> <<>>]

\* the pixels of an image in the order of renderImage's loops
ImageScan(img) ==
    Flatten([x \in 1..img.w |->
                [k \in 1..img.h |-> [x |-> x - 1, y |-> img.h - k]]])

renderImage(img, scale, height, leftOffsetPercent, topOffsetPercent, baseWidth, baseHeight) ==
    LET faceWidthRes == baseWidthVoxelResolution
        faceHeightRes == (faceWidthRes * baseHeight) \div baseWidth
        active(p) == img.px[<<p.x, p.y>>].a > 32768 /\ img.px[<<p.x, p.y>>].r > 32768
        pixels == SelectSeq(ImageScan(img), active)
    IN  IF img.status = "missing"
        THEN [triangles |-> <<>>,
              err |-> NewErr("IOError", "failed to open image", FileErr)]
        ELSE IF img.status = "corrupt"
        THEN [triangles |-> <<>>,
              err |-> NewErr("IOError", "failed to decode PNG", FileErr)]
        ELSE Voxels([i \in 1..Len(pixels) |->
                createVoxelOnFace(
                    2 * ((leftOffsetPercent * faceWidthRes) \div 1000)
                        + (pixels[i].x * scale) \div 5,
                    2 * ((topOffsetPercent * faceHeightRes) \div 1000)
                        + (pixels[i].y * scale) \div 5,
                    height, baseWidth, baseHeight)])

\* logoScale 0.5 (in tenths), logoLeftOffset 0.03, logoTopOffset -0.18
GenerateImageGeometryWithPath(img, baseWidth, baseHeight) ==
    renderImage(img, 5, voxelDepth, 30, 0 - 180, baseWidth, baseHeight)

(***************************************************************************)
(* STL files. A file on disk is absent, unreadable (os.Open fails) or      *)
(* present; a present file is empty or holds either binary STL data (a     *)
(* declared triangle count and the triangle records that follow) or text   *)
(* lines; solid tells whether its first bytes are "solid".                 *)
(*                                                                         *)
(* A text line is the prefix the reader recognises on it and the fields    *)
(* strings.Fields splits it into; a field is a number or a word that       *)
(* strconv.ParseFloat rejects.                                             *)
(***************************************************************************)
Num(v) == [ok |-> TRUE, val |-> v]

Word == [ok |-> FALSE, val |-> 0]

Line(prefix, fields) == [prefix |-> prefix, fields |-> fields]

NoFile(state) ==
    [state |-> state, empty |-> TRUE, format |-> "binary", solid |-> FALSE,
     declared |-> 0, triangles |-> <<>>, lines |-> <<>>]

BinaryFile(solid, declared, triangles) ==
    [state |-> "present", empty |-> FALSE, format |-> "binary", solid |-> solid,
     declared |-> declared, triangles |-> triangles, lines |-> <<>>]

TextFile(solid, lines) ==
    [state |-> "present", empty |-> FALSE, format |-> "text", solid |-> solid,
     declared |-> 0, triangles |-> <<>>, lines |-> lines]

EmptyFile == [NoFile("present") EXCEPT !.empty = TRUE]

\* strconv.ParseFloat with its error dropped: 0 for a malformed field
ParseFloat(field) == IF field.ok THEN field.val ELSE 0

\* ReadSTLBinary: the declared number of triangles, or an error when the
\* file cannot be opened or is shorter than the count declares
ReadSTLBinary(file) ==
    IF file.state # "present" THEN [triangles |-> <<>>, err |-> FileErr]
    ELSE IF file.empty \/ file.format # "binary"
            \/ Len(file.triangles) < file.declared
    THEN [triangles |-> <<>>,
          err |-> NewErr("IOError", "failed to read STL data", FileErr)]
    ELSE [triangles |-> SubSeq(file.triangles, 1, file.declared), err |-> NoErr]

RECURSIVE ScanLines(_, _)
\* the scanner loop of ReadASCIISTL from the state st; an index past the
\* end of fields panics
ScanLines(lines, st) ==
    IF lines = <<>> \/ st.panicked THEN st
    ELSE LET l == Head(lines)
             f == l.fields
         IN  IF l.prefix = "facet normal"
             THEN IF Len(f) < 5 THEN [st EXCEPT !.panicked = TRUE]
                  ELSE ScanLines(Tail(lines),
                         [st EXCEPT !.normal = Point3D(ParseFloat(f[3]),
                                                       ParseFloat(f[4]),
                                                       ParseFloat(f[5]))])
             ELSE IF l.prefix = "vertex"
             THEN IF Len(f) < 4 THEN [st EXCEPT !.panicked = TRUE]
                  ELSE ScanLines(Tail(lines),
                         [st EXCEPT !.vertices =
                              Append(@, Point3D(ParseFloat(f[2]), ParseFloat(f[3]),
                                                ParseFloat(f[4])))])
             ELSE IF l.prefix = "endfacet"
             THEN ScanLines(Tail(lines),
                    [st EXCEPT !.triangles =
                         IF Len(st.vertices) = 3
                         THEN Append(@, Triangle(st.normal, st.vertices[1],
                                                 st.vertices[2], st.vertices[3]))
                         ELSE @,
                     !.vertices = <<>>])
             ELSE ScanLines(Tail(lines), st)

ReadASCIISTL(file) ==
    LET st == ScanLines(IF file.format = "text" /\ ~file.empty THEN file.lines ELSE <<>>,
                        [triangles |-> <<>>, normal |-> Point3D(0, 0, 0),
                         vertices |-> <<>>, panicked |-> FALSE])
    IN  IF file.state # "present"
        THEN [triangles |-> <<>>, err |-> FileErr, panicked |-> FALSE]
        ELSE [triangles |-> st.triangles, err |-> NoErr, panicked |-> st.panicked]

\* lines 149-163 of GenerateSTLRange: sniff the first 80 bytes, then read
ReadCharacter(file) ==
    LET opened == file.state = "present"
        herr == file.empty
        isBinary == ~(opened /\ ~herr /\ file.solid)
    IN  IF isBinary
        THEN [triangles |-> ReadSTLBinary(file).triangles,
              err |-> ReadSTLBinary(file).err, panicked |-> FALSE]
        ELSE ReadASCIISTL(file)

\* the placement with the mesh set flush on z = 0
PlaceCharacterFlush(characterTriangles, dimensions) ==
    LET scaled == scaleTriangles(characterTriangles, 7)
        box == calcBoundingBox(scaled)
        charWidth == box.maxX - box.minX
        charDepth == box.maxY - box.minY
        dx == dimensions.innerWidth - charWidth - box.minX - 10000
        offset == 3000
        dy == dimensions.innerDepth - charDepth - box.minY - offset
        dz == 0 - box.minZ
    IN  translateTriangles(scaled, dx, dy, dz)

\* lines 165-176: scale to 70 %, then move to the right top corner of the base
PlaceCharacter(characterTriangles, dimensions) ==
    LET scaled == scaleTriangles(characterTriangles, 7)
        box == calcBoundingBox(scaled)
        charWidth == box.maxX - box.minX
        charDepth == box.maxY - box.minY
        dx == dimensions.innerWidth - charWidth - box.minX - 10000
        offset == 3000
        dy == dimensions.innerDepth - charDepth - box.minY - offset
        dz == 0 - box.minZ - 500
    IN  translateTriangles(scaled, dx, dy, dz)

(***************************************************************************)
(* Formatting of the caption (fmt.Sprintf "%d" and "%04d-%02d").           *)
(***************************************************************************)
DigitChar(d) == << "0", "1", "2", "3", "4", "5", "6", "7", "8", "9" >>[d + 1]

RECURSIVE Digits(_)
Digits(n) == IF n < 10 THEN << DigitChar(n) >>
             ELSE Append(Digits(n \div 10), DigitChar(n % 10))

RECURSIVE Pad(_, _)
Pad(ds, width) == IF Len(ds) >= width THEN ds ELSE Pad(<< "0" >> \o ds, width)

\* lines 382-389 of generateText
EmbossedRight(rightText, startYear, endYear) ==
    IF rightText # <<>> THEN rightText
    ELSE IF startYear = endYear THEN Digits(endYear)
    ELSE Pad(Digits(startYear), 4) \o << "-" >> \o Pad(Digits(endYear % 100), 2)

\* the message with the name of the first component whatever failed
GeometryMessageOfBase(name) == "failed to generate base geometry"

\* fmt.Sprintf("failed to generate %s geometry", name)
GeometryMessage(name) ==
    CASE name = "base" -> "failed to generate base geometry"
      [] name = "image" -> "failed to generate image geometry"
      [] name = "columns" -> "failed to generate columns geometry"
      [] name = "text" -> "failed to generate text geometry"

(***************************************************************************)
(* The state.                                                              *)
(***************************************************************************)
VARIABLES
    args,             \* the arguments of GenerateSTLRange
    call,             \* a function called on its own: its name, argument and result
    pc,               \* where GenerateSTLRange (with generateModelGeometry) stands
    ret,              \* the error GenerateSTLRange returns
    dimensions,       \* dimensions
    maxContribution,  \* maxContribution
    modelTriangles,   \* modelTriangles (of generateModelGeometry, then of the caller)
    next,             \* index into MergeOrder of the channel read next
    gret,             \* what generateModelGeometry returned
    task,             \* per producer: idle, running, sending, deferred, done
    result,           \* per producer: the geometryResult it sends
    sends,            \* per producer: number of completed sends on its channel
    geomErr,          \* per producer: the error its geometry call returned
    logged,           \* per producer: none, ok, failed (its warning log call)
    wg,               \* the WaitGroup counter
    closed,           \* per channel: closed
    logFailed,        \* a logger call of GenerateSTLRange itself has failed
    auxFile,          \* character.stl as it was found ("unexamined" before that)
    character,        \* the placed auxiliary mesh that was merged
    file,             \* the output file
    writeCalls        \* number of calls of WriteSTLBinary

vars == << args, call, pc, ret, dimensions, maxContribution, modelTriangles, next, gret,
           task, result, sends, geomErr, logged, wg, closed, logFailed, auxFile,
           character, file, writeCalls >>

producerVars == << task, result, sends, geomErr, logged, wg >>

tailVars == << auxFile, character, file, writeCalls >>

Producers == {"base", "columns", "text", "image"}

\* the order of the go statements (lines 341-344) in place of the fan-in order
LaunchOrder == << "base", "columns", "text", "image" >>

\* the fixed order of the fan-in loop (line 347)
MergeOrder == << "base", "image", "columns", "text" >>

Usernames == { <<>>, << "a" >> }
OutputPaths == { "", "out.stl" }
\* the top text and the right text
Captions == { [top |-> <<>>, right |-> <<>>], [top |-> << "T" >>, right |-> << "R" >>] }

\* the contributions argument: up to MaxYears years
YearSeqs ==
    { <<>> } \cup
    { << g >> \o later : g \in Grids,
                         later \in UNION { [1..n -> LaterGrids] : n \in 0..(MaxYears - 1) } }

GeometryResult(triangles, err) == [triangles |-> triangles, err |-> err]

NoResult == GeometryResult(<<>>, NoErr)

NoOutput == [state |-> "none", triangles |-> <<>>]

\* no function is called on its own
NoCall == [fn |-> "none", in |-> <<>>, out |-> <<>>, done |-> FALSE]

Init ==
    /\ call = NoCall
    /\ args \in { [contributions |-> cs, outputPath |-> o, username |-> u,
                   startYear |-> 2023,
                   endYear |-> IF Len(cs) > 1 THEN 2023 + Len(cs) - 1 ELSE 2023,
                   topText |-> c.top, rightText |-> c.right] :
                      cs \in YearSeqs, o \in OutputPaths, u \in Usernames,
                      c \in Captions }
    /\ pc = "start"
    /\ ret = NoErr
    /\ dimensions = NoDimensions
    /\ maxContribution = 0
    /\ modelTriangles = <<>>
    /\ next = 1
    /\ gret = NoResult
    /\ task = [p \in Producers |-> "idle"]
    /\ result = [p \in Producers |-> NoResult]
    /\ sends = [p \in Producers |-> 0]
    /\ geomErr = [p \in Producers |-> NoErr]
    /\ logged = [p \in Producers |-> "none"]
    /\ wg = 0
    /\ closed = [p \in Producers |-> FALSE]
    /\ logFailed = FALSE
    /\ auxFile = NoFile("unexamined")
    /\ character = <<>>
    /\ file = NoOutput
    /\ writeCalls = 0

\* GenerateSTLRange returns err
Return(err) ==
    /\ pc' = "returned"
    /\ ret' = err

\* a logger call of GenerateSTLRange: on failure it returns the wrapped error
LogOrReturn(ok, message, then) ==
    IF ok
    THEN /\ pc' = then
         /\ UNCHANGED << ret, logFailed >>
    ELSE /\ Return(Wrap(LogErr, message))
         /\ logFailed' = TRUE

(***************************************************************************)
(* GenerateSTLRange up to the fan-out.                                     *)
(***************************************************************************)
\* lines 124-127: the opening debug message
Begin ==
    /\ pc = "start"
    /\ \E ok \in BOOLEAN : LogOrReturn(ok, "failed to log debug message", "validate")
    /\ UNCHANGED << args, call, dimensions, maxContribution, modelTriangles, next, gret,
                    closed, producerVars, tailVars >>

\* lines 129-131: contributions[0] panics on an empty slice of years
Validate ==
    /\ pc = "validate"
    /\ IF Len(args.contributions) = 0
       THEN /\ pc' = "panicked"
            /\ ret' = ret
       ELSE LET err == validateInput(args.contributions[1], args.outputPath,
                                     args.username)
            IN  IF IsErr(err) THEN Return(Wrap(err, "input validation failed"))
                ELSE /\ pc' = "dimensions"
                     /\ ret' = ret
    /\ UNCHANGED << args, call, dimensions, maxContribution, modelTriangles, next, gret,
                    closed, logFailed, producerVars, tailVars >>

\* lines 133-139
Dimensions ==
    /\ pc = "dimensions"
    /\ LET d == calculateDimensions(Len(args.contributions))
       IN  IF IsErr(d.err)
           THEN /\ Return(Wrap(d.err, "failed to calculate dimensions"))
                /\ UNCHANGED << dimensions, maxContribution >>
           ELSE /\ dimensions' = d.dims
                /\ maxContribution' = findMaxContributionsAcrossYears(args.contributions)
                /\ pc' = "launch"
                /\ ret' = ret
    /\ UNCHANGED << args, call, modelTriangles, next, gret, closed, logFailed,
                    producerVars, tailVars >>

\* generateModelGeometry, lines 327-346: the channels, wg.Add and the four
\* go statements
Launch ==
    /\ pc = "launch"
    /\ IF Len(args.contributions) = 0
       THEN /\ gret' = GeometryResult(<<>>,
                          NewErr("ValidationError",
                                 "contributions data cannot be empty", NoErr))
            /\ Return(Wrap(gret'.err, "failed to generate geometry"))
            /\ UNCHANGED << task, wg, next, modelTriangles >>
       ELSE /\ wg' = wg + Cardinality(Producers)
            /\ task' = [p \in Producers |-> "running"]
            /\ modelTriangles' = <<>>
            /\ next' = 1
            /\ pc' = "fanin"
            /\ UNCHANGED << ret, gret >>
    /\ UNCHANGED << args, call, dimensions, maxContribution, closed, logFailed, result,
                    sends, geomErr, logged, tailVars >>

\* a producer that sends the geometry error itself
OutcomePropagating(r, logOk) ==
    IF IsErr(r.err)
    THEN IF ~logOk THEN GeometryResult(<<>>, LogErr)
         ELSE GeometryResult(<<>>, r.err)
    ELSE GeometryResult(r.triangles, NoErr)

\* a producer that drops the error of the warning call
OutcomeIgnoringLog(r, logOk) ==
    IF IsErr(r.err)
    THEN GeometryResult(<<>>, NoErr)
    ELSE GeometryResult(r.triangles, NoErr)

(***************************************************************************)
(* The producers. A producer computes its geometryResult in one step (it   *)
(* shares no state with the others) and then blocks on its unbuffered      *)
(* channel until the fan-in loop receives from it. The geometry call of a  *)
(* producer may fail; so may the logger call that reports the failure.     *)
(***************************************************************************)
\* lines 367-376 (and 392-400, 491-499): what is sent for the outcome r of
\* the geometry call
Outcome(r, logOk) ==
    IF IsErr(r.err)
    THEN IF ~logOk THEN GeometryResult(<<>>, LogErr)
         ELSE GeometryResult(<<>>, NoErr)
    ELSE GeometryResult(r.triangles, NoErr)

\* the producer p has computed r and goes on to send its result
Offer(p, r, logOk) ==
    /\ result' = [result EXCEPT ![p] = Outcome(r, logOk)]
    /\ geomErr' = [geomErr EXCEPT ![p] = r.err]
    /\ logged' = [logged EXCEPT ![p] =
                     IF ~IsErr(r.err) THEN "none" ELSE IF logOk THEN "ok" ELSE "failed"]
    /\ task' = [task EXCEPT ![p] = "sending"]

GeometryFailure == NewErr("GeometryError", "geometry construction failed", NoErr)

generateBase ==
    /\ task["base"] = "running"
    /\ \E fails \in BOOLEAN, logOk \in BOOLEAN :
          /\ fails \/ logOk
          /\ Offer("base",
                   IF fails THEN GeometryResult(<<>>, GeometryFailure)
                   ELSE CreateCuboidBase(dimensions.innerWidth, dimensions.innerDepth),
                   logOk)
    /\ UNCHANGED << args, call, pc, ret, dimensions, maxContribution, modelTriangles, next,
                    gret, sends, wg, closed, logFailed, tailVars >>

\* generateModelGeometry passes "" for the username (line 343)
generateText ==
    /\ task["text"] = "running"
    /\ \E year \in FontOutcomes :
       \E top \in IF args.topText # <<>> THEN FontOutcomes ELSE {"primary"} :
          LET r == Create3DText(<<>>,
                       EmbossedRight(args.rightText, args.startYear, args.endYear),
                       dimensions.innerWidth, BaseHeight, dimensions.innerDepth,
                       args.topText,
                       [user |-> "primary", year |-> year, top |-> top])
          IN  \E logOk \in IF IsErr(r.err) THEN BOOLEAN ELSE {TRUE} :
                 Offer("text", r, logOk)
    /\ UNCHANGED << args, call, pc, ret, dimensions, maxContribution, modelTriangles, next,
                    gret, sends, wg, closed, logFailed, tailVars >>

\* logo.png as the producer may find it
LogoImages ==
    { BadImage("missing"), BadImage("corrupt"),
      Image(2, 1, (<<0, 0>> :> Pixel(65535, 65535)) @@ (<<1, 0>> :> Pixel(0, 65535))) }

generateLogoWithCustomPath ==
    /\ task["image"] = "running"
    /\ \E img \in LogoImages :
          LET r == GenerateImageGeometryWithPath(img, dimensions.innerWidth, BaseHeight)
          IN  \E logOk \in IF IsErr(r.err) THEN BOOLEAN ELSE {TRUE} :
                 Offer("image", r, logOk)
    /\ UNCHANGED << args, call, pc, ret, dimensions, maxContribution, modelTriangles, next,
                    gret, sends, wg, closed, logFailed, tailVars >>

\* geometry.CreateContributionGeometry as generateColumnsForYearRange calls
\* it: the columns of the year, or an error
\* (columns: the cells of the year whose CreateColumn fails, and whether
\* the warning about them is logged)
YearGeometry(contributions, yearIndex, maxContrib, fails, columns) ==
    IF fails THEN GeometryResult(<<>>, GeometryFailure)
    ELSE GeometryResult(
             CreateContributionGeometry(contributions, yearIndex, maxContrib,
                                        columns.failing, columns.logOk),
             NoErr)

\* no CreateColumn fails
NoColumnFailure == [failing |-> {}, logOk |-> TRUE]

\* the loop of lines 441-451 with the place of a year in the list as its
\* depth index
RECURSIVE YearsFromByListIndex(_, _, _, _, _, _)
YearsFromByListIndex(contributionsPerYear, i, maxContrib, failing, logFails, columns) ==
    IF i < 1 THEN [triangles |-> <<>>, returned |-> FALSE, err |-> NoErr]
    ELSE LET yearOffset == i - 1
             y == YearGeometry(contributionsPerYear[i], yearOffset, maxContrib,
                               i \in failing, columns[i])
             rest == YearsFromByListIndex(contributionsPerYear, i - 1, maxContrib,
                                          failing, logFails, columns)
         IN  IF IsErr(y.err)
             THEN IF i \in logFails
                  THEN [triangles |-> <<>>, returned |-> TRUE, err |-> y.err]
                  ELSE [rest EXCEPT !.err = y.err]
             ELSE [rest EXCEPT !.triangles = y.triangles \o @]

RECURSIVE YearsFrom(_, _, _, _, _, _)
\* the loop of lines 441-451 from index i down: failing are the years whose
\* geometry fails, logFails those whose warning cannot be logged, columns
\* the column failures of each year
YearsFrom(contributionsPerYear, i, maxContrib, failing, logFails, columns) ==
    IF i < 1 THEN [triangles |-> <<>>, returned |-> FALSE, err |-> NoErr]
    ELSE LET yearOffset == Len(contributionsPerYear) - i
             y == YearGeometry(contributionsPerYear[i], yearOffset, maxContrib,
                               i \in failing, columns[i])
             rest == YearsFrom(contributionsPerYear, i - 1, maxContrib, failing,
                               logFails, columns)
         IN  IF IsErr(y.err)
             THEN IF i \in logFails
                  THEN [triangles |-> <<>>, returned |-> TRUE, err |-> y.err]
                  ELSE [rest EXCEPT !.err = y.err]
             ELSE [rest EXCEPT !.triangles = y.triangles \o @]

generateColumnsForYearRange ==
    /\ task["columns"] = "running"
    /\ \E failing \in SUBSET (1..Len(args.contributions)) :
       \E logFails \in SUBSET failing :
          LET r == YearsFrom(args.contributions, Len(args.contributions),
                             maxContribution, failing, logFails,
                             [i \in 1..Len(args.contributions) |-> NoColumnFailure])
          IN  /\ geomErr' = [geomErr EXCEPT !["columns"] = r.err]
              /\ logged' = [logged EXCEPT !["columns"] =
                               IF r.returned THEN "failed"
                               ELSE IF IsErr(r.err) THEN "ok" ELSE "none"]
              /\ IF r.returned
                 THEN \* line 446: return without a send
                      /\ task' = [task EXCEPT !["columns"] = "deferred"]
                      /\ UNCHANGED result
                 ELSE /\ task' = [task EXCEPT !["columns"] = "sending"]
                      /\ result' = [result EXCEPT !["columns"] =
                                       GeometryResult(r.triangles, NoErr)]
    /\ UNCHANGED << args, call, pc, ret, dimensions, maxContribution, modelTriangles, next,
                    gret, sends, wg, closed, logFailed, tailVars >>

\* the deferred wg.Done() of a producer whose body has finished
Done(p) ==
    /\ task[p] = "deferred"
    /\ task' = [task EXCEPT ![p] = "done"]
    /\ wg' = wg - 1
    /\ UNCHANGED << args, call, pc, ret, dimensions, maxContribution, modelTriangles, next,
                    gret, result, sends, geomErr, logged, closed, logFailed, tailVars >>

(***************************************************************************)
(* The fan-in of generateModelGeometry (lines 347-360).                    *)
(***************************************************************************)
\* result := <-channels[name]: the rendezvous with the producer blocked on
\* its send; an error result ends generateModelGeometry and, through lines
\* 142-144, GenerateSTLRange
Receive ==
    /\ pc = "fanin"
    /\ next <= Len(MergeOrder)
    /\ LET name == MergeOrder[next]
       IN  /\ task[name] = "sending"
           /\ ~closed[name]
           /\ task' = [task EXCEPT ![name] = "deferred"]
           /\ sends' = [sends EXCEPT ![name] = @ + 1]
           /\ IF IsErr(result[name].err)
              THEN /\ gret' = GeometryResult(<<>>,
                                 Wrap(result[name].err, GeometryMessage(name)))
                   /\ Return(Wrap(gret'.err, "failed to generate geometry"))
                   /\ UNCHANGED << modelTriangles, next >>
              ELSE /\ modelTriangles' = modelTriangles \o result[name].triangles
                   /\ next' = next + 1
                   /\ UNCHANGED << pc, ret, gret >>
    /\ UNCHANGED << args, call, dimensions, maxContribution, result, geomErr, logged, wg,
                    closed, logFailed, tailVars >>

\* the loop left for the close loop without wg.Wait()
WaitWithoutWaitGroup ==
    /\ pc = "fanin"
    /\ next > Len(MergeOrder)
    /\ pc' = "close"
    /\ UNCHANGED << args, call, ret, dimensions, maxContribution, modelTriangles, next, gret,
                    closed, logFailed, producerVars, tailVars >>

\* wg.Wait() after the loop
Wait ==
    /\ pc = "fanin"
    /\ next > Len(MergeOrder)
    /\ wg = 0
    /\ pc' = "close"
    /\ UNCHANGED << args, call, ret, dimensions, maxContribution, modelTriangles, next, gret,
                    closed, logFailed, producerVars, tailVars >>

\* the close loop and the return of the merged mesh
Close ==
    /\ pc = "close"
    /\ closed' = [p \in Producers |-> TRUE]
    /\ gret' = GeometryResult(modelTriangles, NoErr)
    /\ pc' = "character"
    /\ UNCHANGED << args, call, ret, dimensions, maxContribution, modelTriangles, next,
                    logFailed, producerVars, tailVars >>

(***************************************************************************)
(* GenerateSTLRange after the fan-in: character.stl and the output file.   *)
(***************************************************************************)
\* a triangle of an auxiliary mesh; its lowest vertex is at z = b - 1000
AuxTriangle(a, b) ==
    Triangle(Point3D(0, 0, 1), Point3D(a, b, b), Point3D(a + 1000, b, b - 1000),
             Point3D(a, b + 2000, b + 1000))

\* the text lines of one facet
FacetLines(t) ==
    << Line("facet normal", << Word, Word, Num(t.Normal.X), Num(t.Normal.Y), Num(t.Normal.Z) >>),
       Line("other", << Word, Word >>),
       Line("vertex", << Word, Num(t.V1.X), Num(t.V1.Y), Num(t.V1.Z) >>),
       Line("vertex", << Word, Num(t.V2.X), Num(t.V2.Y), Num(t.V2.Z) >>),
       Line("vertex", << Word, Num(t.V3.X), Num(t.V3.Y), Num(t.V3.Z) >>),
       Line("other", << Word >>),
       Line("endfacet", << Word >>) >>

\* character.stl as GenerateSTLRange may find it: absent, unreadable, of
\* zero length, binary (complete, without triangles, truncated) or text
\* (a facet, a vertex line of too few fields)
AuxFiles ==
    { NoFile("absent"), NoFile("unreadable"), EmptyFile,
      BinaryFile(FALSE, 2, << AuxTriangle(0, 0 - 2000), AuxTriangle(3000, 0) >>),
      BinaryFile(FALSE, 0, <<>>),
      BinaryFile(FALSE, 2, << AuxTriangle(0, 0) >>),
      TextFile(TRUE, << Line("other", << Word, Word >>) >>
                        \o FacetLines(AuxTriangle(1000, 4000))),
      TextFile(TRUE, << Line("vertex", << Word, Num(0) >>) >>) }

\* line 168: the call of calcBoundingBox on the scaled mesh, as made
BoundingBoxCall(scaled) ==
    [fn |-> "calcBoundingBox", in |-> [triangles |-> scaled],
     out |-> calcBoundingBox(scaled), done |-> TRUE]

\* lines 146-185
Character ==
    /\ pc = "character"
    /\ \E f \in AuxFiles, logOk \in BOOLEAN :
          LET r == ReadCharacter(f)
          IN  /\ auxFile' = f
              /\ IF r.panicked
                 THEN /\ pc' = "panicked"
                      /\ UNCHANGED << ret, logFailed, modelTriangles, character, call >>
                 ELSE IF ~IsErr(r.err) /\ Len(r.triangles) > 0
                 THEN /\ character' = PlaceCharacter(r.triangles, dimensions)
                      /\ modelTriangles' = modelTriangles \o character'
                      /\ call' = BoundingBoxCall(scaleTriangles(r.triangles, 7))
                      /\ LogOrReturn(logOk, "failed to log info message", "report")
                 ELSE /\ LogOrReturn(logOk, "failed to log debug message", "report")
                      /\ UNCHANGED << modelTriangles, character, call >>
    /\ UNCHANGED << args, dimensions, maxContribution, next, gret, closed,
                    producerVars, file, writeCalls >>

\* lines 187-192: the two messages before the write
Report ==
    /\ pc = "report"
    /\ \E ok1 \in BOOLEAN, ok2 \in BOOLEAN :
          IF ~ok1 THEN LogOrReturn(FALSE, "failed to log info message", "write")
          ELSE LogOrReturn(ok2, "failed to log debug message", "write")
    /\ UNCHANGED << args, call, dimensions, maxContribution, modelTriangles, next, gret,
                    closed, producerVars, tailVars >>

\* WriteSTLBinary: the file holds the mesh, or the call fails and leaves no
\* file or an incomplete one
WriteSTLBinary(triangles, outcome) ==
    CASE outcome = "ok" -> [file |-> [state |-> "complete", triangles |-> triangles],
                            err |-> NoErr]
      [] outcome = "partial" -> [file |-> [state |-> "partial", triangles |-> <<>>],
                                 err |-> FileErr]
      [] OTHER -> [file |-> file, err |-> FileErr]

\* lines 194-196
Write ==
    /\ pc = "write"
    /\ \E outcome \in {"ok", "partial", "failed"} :
          LET w == WriteSTLBinary(modelTriangles, outcome)
          IN  /\ file' = w.file
              /\ writeCalls' = writeCalls + 1
              /\ IF IsErr(w.err)
                 THEN Return(Wrap(w.err, "failed to write STL file"))
                 ELSE /\ pc' = "written"
                      /\ ret' = ret
    /\ UNCHANGED << args, call, dimensions, maxContribution, modelTriangles, next, gret,
                    closed, logFailed, producerVars, auxFile, character >>

\* lines 198-201
Finish ==
    /\ pc = "written"
    /\ \E ok \in BOOLEAN :
          IF ok THEN /\ Return(NoErr)
                     /\ UNCHANGED logFailed
          ELSE LogOrReturn(FALSE, "failed to log info message", "returned")
    /\ UNCHANGED << args, call, dimensions, maxContribution, modelTriangles, next, gret,
                    closed, producerVars, tailVars >>

Next ==
    \/ Begin
    \/ Validate
    \/ Dimensions
    \/ Launch
    \/ generateBase
    \/ generateColumnsForYearRange
    \/ generateText
    \/ generateLogoWithCustomPath
    \/ \E p \in Producers : Done(p)
    \/ Receive
    \/ Wait
    \/ Close
    \/ Character
    \/ Report
    \/ Write
    \/ Finish

Spec == Init /\ [][Next]_vars

(***************************************************************************)
(* The functions called on their own: the argument is drawn in the initial *)
(* state and one step applies the function to it. GenerateSTLRange is not  *)
(* running (pc = "none").                                                  *)
(***************************************************************************)
MaxMesh == 2

NoArgs == [contributions |-> <<>>, outputPath |-> "", username |-> <<>>,
           startYear |-> 2023, endYear |-> 2023, topText |-> <<>>, rightText |-> <<>>]

\* GenerateSTLRange has not been called
ProgramIdle ==
    /\ args = NoArgs
    /\ pc = "none"
    /\ ret = NoErr
    /\ dimensions = NoDimensions
    /\ maxContribution = 0
    /\ modelTriangles = <<>>
    /\ next = 1
    /\ gret = NoResult
    /\ task = [p \in Producers |-> "idle"]
    /\ result = [p \in Producers |-> NoResult]
    /\ sends = [p \in Producers |-> 0]
    /\ geomErr = [p \in Producers |-> NoErr]
    /\ logged = [p \in Producers |-> "none"]
    /\ wg = 0
    /\ closed = [p \in Producers |-> FALSE]
    /\ logFailed = FALSE
    /\ auxFile = NoFile("unexamined")
    /\ character = <<>>
    /\ file = NoOutput
    /\ writeCalls = 0

programVars == << args, pc, ret, dimensions, maxContribution, modelTriangles, next,
                  gret, producerVars, closed, logFailed, tailVars >>

\* the call of fn on the argument in, not yet made
Call(fn, in) == [fn |-> fn, in |-> in, out |-> <<>>, done |-> FALSE]

\* the call returns out
Returns(out) ==
    /\ ~call.done
    /\ call' = [call EXCEPT !.out = out, !.done = TRUE]
    /\ UNCHANGED programVars

\* triangles with vertices on either side of the origin
SampleTriangles ==
    { Triangle(Point3D(0, 0, 10), Point3D(0, 0, 0), Point3D(10, 0, 0), Point3D(0, 10, 0)),
      Triangle(Point3D(10, 0, 0), Point3D(0 - 20, 30, 0 - 10), Point3D(40, 0 - 10, 20),
               Point3D(0, 0, 50)),
      Triangle(Point3D(0, 0 - 10, 0), Point3D(100, 100, 100), Point3D(110, 100, 100),
               Point3D(100, 120, 130)),
      Triangle(Point3D(0, 0, 0 - 10), Point3D(0 - 30, 0 - 30, 0 - 30),
               Point3D(0 - 10, 0 - 20, 0 - 40), Point3D(0 - 50, 0 - 10, 0 - 20)) }

\* the meshes of up to MaxMesh triangles
Meshes == UNION { [1..k -> SampleTriangles] : k \in 0..MaxMesh }

\* scale factors in tenths
Factors == {0, 7, 10, 20, 0 - 10}

ScaleCalls == { Call("scaleTriangles", [triangles |-> m, scale |-> f]) :
                    m \in Meshes, f \in Factors }

BoundingBoxCalls == { Call("calcBoundingBox", [triangles |-> m]) : m \in Meshes }

CallScaleTriangles ==
    /\ call.fn = "scaleTriangles"
    /\ Returns(scaleTriangles(call.in.triangles, call.in.scale))

CallCalcBoundingBox ==
    /\ call.fn = "calcBoundingBox"
    /\ Returns(calcBoundingBox(call.in.triangles))

MaxLines == 5

\* the lines of an ASCII STL file: two facet normal lines and two vertex
\* lines, one of each with a malformed number; a vertex line of too few
\* fields; endfacet; a line the reader ignores
LineKinds ==
    { Line("facet normal", << Word, Word, Num(0), Num(0), Num(10) >>),
      Line("facet normal", << Word, Word, Word, Num(20), Num(0) >>),
      Line("vertex", << Word, Num(10), Num(20), Num(30) >>),
      Line("vertex", << Word, Num(40), Word, Num(60) >>),
      Line("vertex", << Word, Num(10) >>),
      Line("endfacet", << Word >>),
      Line("other", << Word, Word >>) }

\* the files of up to MaxLines lines
AsciiFiles == { TextFile(TRUE, ls) : ls \in UNION { [1..k -> LineKinds] : k \in 0..MaxLines } }

ReadASCIICalls == { Call("ReadASCIISTL", [file |-> f]) : f \in AsciiFiles }

CallReadASCIISTL ==
    /\ call.fn = "ReadASCIISTL"
    /\ Returns(ReadASCIISTL(call.in.file))

\* Most weeks of a grid, and most days of a week, handed to
\* CreateContributionGeometry on its own.
MaxWeeks == 2
MaxDays == 2

\* a day without contributions and a day with some
SampleDays == { ContributionDay("2023-01-01", 0), ContributionDay("2023-01-02", 2) }

SampleWeeks == UNION { [1..k -> SampleDays] : k \in 0..MaxDays }

SampleGrids == UNION { [1..k -> SampleWeeks] : k \in 0..MaxWeeks }

\* (failing: the cells whose CreateColumn fails; logOk: whether the warning
\* about them is logged)
ColumnCalls == { Call("CreateContributionGeometry", [contributions |-> g, yearIndex |-> y, maxContrib |-> 2, failing |-> {}, logOk |-> TRUE]) : g \in SampleGrids, y \in 0..1 }

CallCreateContributionGeometry ==
    /\ call.fn = "CreateContributionGeometry"
    /\ Returns(CreateContributionGeometry(call.in.contributions, call.in.yearIndex,
                                          call.in.maxContrib, call.in.failing,
                                          call.in.logOk))

\* GenerateSkyline (skyline.go, lines 60-70): the years startYear..endYear
\* in the order in which their grids are appended
YearRange(startYear, endYear) ==
    [k \in 1..(endYear - startYear + 1) |-> startYear + (k - 1)]

Reverse(seq) == [k \in 1..Len(seq) |-> seq[Len(seq) + 1 - k]]

FirstYear == 2021
LastYear == 2020 + MaxYears + 1

\* the grid of a year: one week of two days, whose counts tell the years
\* apart
YearGrid(year) ==
    << << ContributionDay("01-01", year - 2020), ContributionDay("01-02", year - 2020) >> >>

\* the lists of years handed to the columns producer: as GenerateSkyline
\* builds them, and most recent year first
YearLists ==
    LET ranges == { YearRange(a, b) : a \in FirstYear..LastYear, b \in FirstYear..LastYear }
    IN  { r \in ranges : Len(r) \in 1..MaxYears }
           \cup { Reverse(r) : r \in { q \in ranges : Len(q) \in 1..MaxYears } }

\* the column failures of a list of n years: none, or one cell of one year,
\* logged or not
ColumnFailuresOf(n) ==
    { [i \in 1..n |-> NoColumnFailure] }
       \cup { [i \in 1..n |-> IF i = k THEN [failing |-> { <<0, d>> }, logOk |-> l]
                                ELSE NoColumnFailure] : k \in 1..n, d \in 0..1, l \in BOOLEAN }

ProducerCalls ==
    UNION { { Call("generateColumnsForYearRange", [years |-> ys, contributionsPerYear |-> [k \in 1..Len(ys) |-> YearGrid(ys[k])], maxContrib |-> LastYear - 2020, failing |-> f, logFails |-> lf, columns |-> cf]) : f \in SUBSET (1..Len(ys)), lf \in SUBSET (1..Len(ys)), cf \in ColumnFailuresOf(Len(ys)) } : ys \in YearLists }

\* the loop of generateColumnsForYearRange on its own
CallGenerateColumns ==
    /\ call.fn = "generateColumnsForYearRange"
    /\ call.in.logFails \subseteq call.in.failing
    /\ Returns(YearsFrom(call.in.contributionsPerYear, Len(call.in.contributionsPerYear),
                         call.in.maxContrib, call.in.failing, call.in.logFails,
                         call.in.columns))

\* the faces handed to the rasterizer on its own: that of a model of one
\* year, and one of negative extents, on which no voxel can be built
SampleFaces ==
    { [baseWidth |-> GridSize * CellSize, baseHeight |-> BaseHeight, baseDepth |-> YearOffset + YearSpacing],
      [baseWidth |-> 0 - GridSize * CellSize, baseHeight |-> 0 - BaseHeight, baseDepth |-> 0 - (YearOffset + YearSpacing)] }

SampleTexts == { <<>>, << "a" >>, << "a", "b" >> }

\* the logo images, and an image without an active pixel
SampleImages == LogoImages \cup { Image(1, 1, (<<0, 0>> :> Pixel(0, 0))) }

RenderTextCalls == { Call("renderText", [text |-> t, justification |-> j, face |-> f, font |-> ft]) : t \in SampleTexts, j \in {"left", "right"}, f \in SampleFaces, ft \in FontOutcomes }

RenderTextOnTopCalls == { Call("renderTextOnTop", [text |-> t, justification |-> j, face |-> f, font |-> ft]) : t \in SampleTexts, j \in {"left", "center"}, f \in SampleFaces, ft \in FontOutcomes }

RenderImageCalls == { Call("renderImage", [img |-> i, height |-> h, face |-> f]) : i \in SampleImages, h \in {voxelDepth, 0}, f \in SampleFaces }

Create3DTextCalls == { Call("Create3DText", [username |-> u, year |-> << "2", "3" >>, additionalText |-> t, face |-> f, fonts |-> fs]) : u \in SampleTexts, t \in SampleTexts, f \in SampleFaces, fs \in [user : FontOutcomes, year : FontOutcomes, top : FontOutcomes] }

CallRenderText ==
    /\ call.fn = "renderText"
    /\ Returns(renderText(call.in.text, call.in.justification,
                          IF call.in.justification = "left" THEN 100 ELSE 970, 100,
                          call.in.face.baseWidth, call.in.face.baseHeight,
                          call.in.font))

CallRenderTextOnTop ==
    /\ call.fn = "renderTextOnTop"
    /\ Returns(renderTextOnTop(call.in.text, call.in.justification, 500, 500, 150,
                               call.in.face.baseWidth, call.in.face.baseDepth,
                               call.in.face.baseHeight, call.in.font))

CallRenderImage ==
    /\ call.fn = "renderImage"
    /\ Returns(renderImage(call.in.img, 5, call.in.height, 30, 0 - 180,
                           call.in.face.baseWidth, call.in.face.baseHeight))

CallCreate3DText ==
    /\ call.fn = "Create3DText"
    /\ Returns(Create3DText(call.in.username, call.in.year, call.in.face.baseWidth,
                            call.in.face.baseHeight, call.in.face.baseDepth,
                            call.in.additionalText, call.in.fonts))

RenderCalls == RenderTextCalls \cup RenderTextOnTopCalls \cup RenderImageCalls \cup Create3DTextCalls

(***************************************************************************)
(* cmd/skyline/skyline.go: the month filter. A date is the sequence of its *)
(* characters.                                                             *)
(***************************************************************************)
DigitValue ==
    ("0" :> 0) @@ ("1" :> 1) @@ ("2" :> 2) @@ ("3" :> 3) @@ ("4" :> 4) @@
    ("5" :> 5) @@ ("6" :> 6) @@ ("7" :> 7) @@ ("8" :> 8) @@ ("9" :> 9)

IsLeap(year) == year % 4 = 0 /\ (year % 100 # 0 \/ year % 400 = 0)

DaysIn(month, year) ==
    IF month = 2 THEN (IF IsLeap(year) THEN 29 ELSE 28)
    ELSE IF month \in {4, 6, 9, 11} THEN 30
    ELSE 31

\* time.Parse("2006-01-02", date): four digits, "-", two digits, "-", two
\* digits and nothing after them; the month in 1..12 and the day in the
\* month
ParseDate(date) ==
    LET shaped == /\ Len(date) = 10
                  /\ date[5] = "-"
                  /\ date[8] = "-"
                  /\ \A i \in {1, 2, 3, 4, 6, 7, 9, 10} : date[i] \in DOMAIN DigitValue
        v(i) == DigitValue[date[i]]
        year == 1000 * v(1) + 100 * v(2) + 10 * v(3) + v(4)
        month == 10 * v(6) + v(7)
        day == 10 * v(9) + v(10)
    IN  IF ~shaped THEN [ok |-> FALSE, year |-> 0, month |-> 0, day |-> 0]
        ELSE IF month \notin 1..12 \/ day \notin 1..DaysIn(month, year)
        THEN [ok |-> FALSE, year |-> 0, month |-> 0, day |-> 0]
        ELSE [ok |-> TRUE, year |-> year, month |-> month, day |-> day]

\* the inner loop of filterContributionsByMonth (lines 121-130)
RECURSIVE FilterDays(_, _, _)
FilterDays(week, startMonth, endMonth) ==
    IF week = <<>> THEN <<>>
    ELSE LET day == Head(week)
             date == ParseDate(day.Date)
             rest == FilterDays(Tail(week), startMonth, endMonth)
         IN  IF ~date.ok THEN rest
             ELSE IF date.month >= startMonth /\ date.month <= endMonth
             THEN << day >> \o rest
             ELSE rest

\* the outer loop with every week kept, also one left without days
RECURSIVE FilterWeeksKeepingEmpty(_, _, _)
FilterWeeksKeepingEmpty(contributions, startMonth, endMonth) ==
    IF contributions = <<>> THEN <<>>
    ELSE << FilterDays(Head(contributions), startMonth, endMonth) >>
            \o FilterWeeksKeepingEmpty(Tail(contributions), startMonth, endMonth)

\* the outer loop (lines 119-134)
RECURSIVE FilterWeeks(_, _, _)
FilterWeeks(contributions, startMonth, endMonth) ==
    IF contributions = <<>> THEN <<>>
    ELSE LET filteredDays == FilterDays(Head(contributions), startMonth, endMonth)
             rest == FilterWeeks(Tail(contributions), startMonth, endMonth)
         IN  IF Len(filteredDays) > 0 THEN << filteredDays >> \o rest ELSE rest

filterContributionsByMonth(contributions, year, startMonth, endMonth) ==
    FilterWeeks(contributions, startMonth, endMonth)

\* utils.ValidateMonthRange: the error, if any
ValidateMonthRange(startMonth, endMonth) ==
    IF startMonth < 1 \/ startMonth > 12 \/ endMonth < 1 \/ endMonth > 12
    THEN [kind |-> "error", chain |-> << "months must be between 1 and 12" >>]
    ELSE IF startMonth > endMonth
    THEN [kind |-> "error", chain |-> << "start month cannot be after end month" >>]
    ELSE NoErr

\* dates of January, June and December, a day that is not in its month, a
\* month of one digit and a month that is no month
Jan15 == << "2", "0", "2", "3", "-", "0", "1", "-", "1", "5" >>
Jun01 == << "2", "0", "2", "3", "-", "0", "6", "-", "0", "1" >>
Dec31 == << "2", "0", "2", "3", "-", "1", "2", "-", "3", "1" >>
Feb30 == << "2", "0", "2", "3", "-", "0", "2", "-", "3", "0" >>
Jun1Short == << "2", "0", "2", "3", "-", "6", "-", "0", "1" >>
Month13 == << "2", "0", "2", "3", "-", "1", "3", "-", "0", "1" >>

\* the weeks of the grids handed to the filter
DatedWeeks ==
    { <<>>,
      << ContributionDay(Jan15, 1), ContributionDay(Jun01, 1) >>,
      << ContributionDay(Jun01, 1), ContributionDay(Feb30, 1), ContributionDay(Dec31, 1) >>,
      << ContributionDay(Jun1Short, 1), ContributionDay(Month13, 1) >>,
      << ContributionDay(Dec31, 1), ContributionDay(Jan15, 1) >>,
      << ContributionDay(Jun01, 1) >> }

DatedGrids == UNION { [1..k -> DatedWeeks] : k \in 0..MaxWeeks }

\* the month ranges: the whole year, one month, the second half, months
\* without a day in the grids, and two ranges that ValidateMonthRange
\* rejects
MonthRanges == { <<1, 12>>, <<1, 1>>, <<6, 12>>, <<2, 5>>, <<7, 3>>, <<0, 13>> }

FilterCalls == { Call("filterContributionsByMonth", [contributions |-> g, year |-> 2023, startMonth |-> r[1], endMonth |-> r[2]]) : g \in DatedGrids, r \in MonthRanges }

CallFilterContributionsByMonth ==
    /\ call.fn = "filterContributionsByMonth"
    /\ Returns(filterContributionsByMonth(call.in.contributions, call.in.year,
                                          call.in.startMonth, call.in.endMonth))

\* a call of one of the functions, not yet made
InitCalls ==
    /\ \/ call \in ScaleCalls
       \/ call \in BoundingBoxCalls
       \/ call \in ReadASCIICalls
       \/ call \in ColumnCalls
       \/ call \in ProducerCalls
       \/ call \in RenderCalls
       \/ call \in FilterCalls
    /\ ProgramIdle

NextCalls ==
    \/ CallScaleTriangles
    \/ CallCalcBoundingBox
    \/ CallReadASCIISTL
    \/ CallCreateContributionGeometry
    \/ CallGenerateColumns
    \/ CallRenderText
    \/ CallRenderTextOnTop
    \/ CallRenderImage
    \/ CallCreate3DText
    \/ CallFilterContributionsByMonth

Calls == InitCalls /\ [][NextCalls]_vars

\* GenerateSTLRange, and calcBoundingBox called on its own, side by side
InitBoxes == Init \/ (call \in BoundingBoxCalls /\ ProgramIdle)

NextBoxes == Next \/ CallCalcBoundingBox

Boxes == InitBoxes /\ [][NextBoxes]_vars

\* GenerateSkyline for one year (skyline.go, lines 55-58 and 100-109): with
\* a month range that ValidateMonthRange accepts, the filtered grid of the
\* year is handed to GenerateSTL, which wraps it into a list of one year for
\* GenerateSTLRange (lines 108-112 of the stl package)
GenerateSkyline ==
    /\ call.fn = "filterContributionsByMonth"
    /\ call.done
    /\ ProgramIdle
    /\ ~IsErr(ValidateMonthRange(call.in.startMonth, call.in.endMonth))
    /\ args' = [contributions |-> << call.out >>, outputPath |-> "out.stl",
                username |-> << "a" >>, startYear |-> call.in.year,
                endYear |-> call.in.year, topText |-> <<>>, rightText |-> <<>>]
    /\ pc' = "start"
    /\ call' = Call("GenerateSTL", [contributions |-> call.out])
    /\ UNCHANGED << ret, dimensions, maxContribution, modelTriangles, next, gret,
                    producerVars, closed, logFailed, tailVars >>

\* the month filter followed by the generation of the filtered year
InitMonths == call \in FilterCalls /\ ProgramIdle

NextMonths == CallFilterContributionsByMonth \/ GenerateSkyline \/ Next

Months == InitMonths /\ [][NextMonths]_vars

(***************************************************************************)
(* Properties.                                                             *)
(***************************************************************************)
\* generateModelGeometry has started its producers
Launched == task["base"] # "idle"

\* generateModelGeometry has returned the merged mesh (after wg.Wait and
\* the close loop)
FanInSucceeded == closed["base"]

\* generateModelGeometry has returned to GenerateSTLRange
GeometryReturned == Launched /\ pc \notin {"fanin", "close"}

\* the merge order the specification names
ClaimedOrder == << "base", "image", "columns", "text" >>

\* the meshes of the four results in the claimed order, one after the other
ClaimedMerge ==
    result["base"].triangles \o result["image"].triangles
        \o result["columns"].triangles \o result["text"].triangles

\* C1: in every interleaving, a successful generateModelGeometry returns
\* exactly base ++ image ++ columns ++ text of the four producers' results.
C1_MergeIsFixedOrderConcatenation ==
    FanInSucceeded => gret = GeometryResult(ClaimedMerge, NoErr)

\* a successful fan-in in which every producer contributed triangles
C1_Witness ==
    /\ FanInSucceeded
    /\ \A p \in Producers : result[p].triangles # <<>>
    /\ gret.triangles = ClaimedMerge

\* C2: every producer sends exactly one result on its channel, also when
\* its geometry or its warning log call fails: a finished producer has
\* completed one send, and none completes more than one.
C2_ExactlyOneSend ==
    \A p \in Producers :
        /\ sends[p] <= 1
        /\ task[p] = "done" => sends[p] = 1

\* C3: generateModelGeometry does not return, with a mesh or with an
\* error, before it has received from all four channels.
C3_ReturnsAfterAllFourReceived ==
    GeometryReturned => \A p \in Producers : sends[p] = 1

\* the first year's grid has no week or too many, or the output path or the
\* username is empty
InvalidInput ==
    /\ Len(args.contributions) > 0
    /\ \/ Len(args.contributions[1]) = 0
       \/ Len(args.contributions[1]) > GridSize
       \/ args.outputPath = ""
       \/ args.username = <<>>

NothingLaunchedOrWritten ==
    /\ \A p \in Producers : task[p] = "idle"
    /\ wg = 0
    /\ writeCalls = 0
    /\ file = NoOutput

\* C4 as claimed: on invalid input GenerateSTLRange returns a
\* ValidationError, with no producer launched and no file written.
C4_InvalidInputGivesValidationError ==
    InvalidInput =>
        /\ pc \in {"start", "validate", "returned"}
        /\ NothingLaunchedOrWritten
        /\ pc = "returned" => ret.kind = "ValidationError"

\* C4 as amended: on invalid input GenerateSTLRange returns an error with
\* no producer launched and no file written; the error is the wrapped
\* ValidationError of validateInput unless the opening debug message could
\* not be logged, and then it is that wrapped log error.
C4_InvalidInputRejectedBeforeLaunch ==
    InvalidInput =>
        /\ pc \in {"start", "validate", "returned"}
        /\ NothingLaunchedOrWritten
        /\ pc = "returned" =>
              IF logFailed
              THEN ret = Wrap(LogErr, "failed to log debug message")
              ELSE /\ ret.kind = "ValidationError"
                   /\ Len(ret.chain) = 2
                   /\ ret.chain[1] = "input validation failed"

\* a grid of zero weeks was rejected with the ValidationError
C4_Witness ==
    /\ Len(args.contributions) > 0
    /\ Len(args.contributions[1]) = 0
    /\ pc = "returned"
    /\ ret.kind = "ValidationError"
    /\ ret.chain = << "input validation failed", "contributions data cannot be empty" >>

\* the components whose result carries an error, as positions of ClaimedOrder
FailingPositions == { i \in 1..Len(ClaimedOrder) : IsErr(result[ClaimedOrder[i]].err) }

FirstFailing ==
    ClaimedOrder[CHOOSE i \in FailingPositions : \A j \in FailingPositions : i <= j]

\* C5: when a result carries an error, generateModelGeometry returns no
\* mesh and that error wrapped with the name of the first failing component
\* in the order base, image, columns, text; GenerateSTLRange returns an
\* error and WriteSTLBinary is never called.
C5_FirstFailingComponentIsReported ==
    FailingPositions # {} =>
        /\ pc \in {"fanin", "returned"}
        /\ writeCalls = 0
        /\ file = NoOutput
        /\ pc = "returned" =>
              /\ gret = GeometryResult(<<>>, Wrap(result[FirstFailing].err,
                                                  GeometryMessage(FirstFailing)))
              /\ gret.err.chain[1] =
                    CASE FirstFailing = "base" -> "failed to generate base geometry"
                      [] FirstFailing = "image" -> "failed to generate image geometry"
                      [] FirstFailing = "columns" -> "failed to generate columns geometry"
                      [] FirstFailing = "text" -> "failed to generate text geometry"
              /\ ret = Wrap(gret.err, "failed to generate geometry")
              /\ IsErr(ret)

\* the image is reported although the text producer failed too
C5_Witness ==
    /\ pc = "returned"
    /\ IsErr(result["text"].err)
    /\ IsErr(result["image"].err)
    /\ ~IsErr(result["base"].err)
    /\ gret.err.chain[1] = "failed to generate image geometry"

\* the concatenation in the claimed order of what the components that did
\* not fail have sent
RemainingMerge ==
    (IF IsErr(geomErr["base"]) THEN <<>> ELSE result["base"].triangles)
        \o (IF IsErr(geomErr["image"]) THEN <<>> ELSE result["image"].triangles)
        \o result["columns"].triangles
        \o (IF IsErr(geomErr["text"]) THEN <<>> ELSE result["text"].triangles)

\* C6: a geometry failure of the base, text or image producer whose warning
\* is logged gives an empty mesh with a nil error; generateModelGeometry
\* fails only through a warning that could not be logged, and its mesh is
\* the concatenation of the remaining components.
C6_LoggedFailureDegradesToEmptyMesh ==
    /\ \A p \in {"base", "text", "image"} :
          (IsErr(geomErr[p]) /\ logged[p] = "ok") =>
              result[p] = GeometryResult(<<>>, NoErr)
    /\ IsErr(gret.err) =>
          \E q \in Producers : logged[q] = "failed" /\ result[q].err = LogErr
    /\ FanInSucceeded =>
          /\ gret = GeometryResult(RemainingMerge, NoErr)
          /\ \A p \in Producers : ~IsErr(result[p].err)

\* the base failed with its warning logged and the merge holds the rest
C6_Witness ==
    /\ FanInSucceeded
    /\ IsErr(geomErr["base"])
    /\ logged["base"] = "ok"
    /\ result["base"] = GeometryResult(<<>>, NoErr)
    /\ gret.triangles # <<>>
    /\ gret.triangles = result["image"].triangles \o result["columns"].triangles
                            \o result["text"].triangles

\* neither the primary nor the fallback font could be loaded
FontsUnavailable ==
    /\ geomErr["text"].kind = "IOError"
    /\ geomErr["text"].chain # <<>>
    /\ geomErr["text"].chain[1] = "failed to load any fonts"

\* C7 as claimed: when no font can be loaded the failure reaches the fan-in
\* as an error, the generation aborts and no file is written.
C7_FontFailureAbortsGeneration ==
    FontsUnavailable =>
        /\ IsErr(result["text"].err)
        /\ ~FanInSucceeded
        /\ file = NoOutput
        /\ pc = "returned" => IsErr(ret)

\* C7 as amended: when no font can be loaded the text producer sends an
\* empty mesh with a nil error if its warning is logged, and the generation
\* goes on without the text; the failure is fatal only when the warning
\* cannot be logged, and then the generation aborts and no file is written.
C7_FontFailureIsFatalOnlyWhenUnlogged ==
    FontsUnavailable =>
        IF logged["text"] = "ok"
        THEN /\ result["text"] = GeometryResult(<<>>, NoErr)
             /\ IsErr(gret.err) => gret.err.chain[1] # "failed to generate text geometry"
             /\ FanInSucceeded =>
                   gret.triangles = result["base"].triangles
                       \o result["image"].triangles \o result["columns"].triangles
        ELSE /\ logged["text"] = "failed"
             /\ result["text"] = GeometryResult(<<>>, LogErr)
             /\ ~FanInSucceeded
             /\ writeCalls = 0
             /\ file = NoOutput
             /\ pc = "returned" => IsErr(ret)

\* no font was loaded, and the file was written and nil returned
C7_Witness ==
    /\ FontsUnavailable
    /\ logged["text"] = "ok"
    /\ pc = "returned"
    /\ ret = NoErr
    /\ file.state = "complete"
    /\ file.triangles # <<>>

\* the generation aborted on the warning of the font failure
C7_WitnessFatal ==
    /\ FontsUnavailable
    /\ logged["text"] = "failed"
    /\ pc = "returned"
    /\ ret = Wrap(Wrap(LogErr, "failed to generate text geometry"),
                  "failed to generate geometry")

\* some goroutine can take a step: GenerateSTLRange has not returned and is
\* not waiting, a producer is computing or about to run its deferred
\* wg.Done(), the fan-in loop finds the producer it reads from blocked on
\* its send, or wg.Wait() finds the counter at zero
Runnable ==
    \/ pc \in {"start", "validate", "dimensions", "launch", "close", "character",
                "report", "write", "written"}
    \/ \E p \in Producers : task[p] \in {"running", "deferred"}
    \/ pc = "fanin" /\ next <= Len(MergeOrder) /\ task[MergeOrder[next]] = "sending"
    \/ pc = "fanin" /\ next > Len(MergeOrder) /\ wg = 0

\* every step of the program starts in a state where some goroutine can
\* take a step: where Runnable is false the execution has stopped for good
StepsNeedRunnable == [][Runnable]_vars

\* C8: no execution stops for good with a producer that has not terminated
\* or with generateModelGeometry not returned: where no goroutine can take a
\* step, every launched producer is done and GenerateSTLRange has returned
\* (or the process has panicked).
C8_NothingBlocksForever ==
    ~Runnable =>
        /\ pc \in {"returned", "panicked"}
        /\ \A p \in Producers : task[p] \in {"idle", "done"}

\* character.stl has been examined (lines 146-185 have run)
CharacterExamined == auxFile.state # "unexamined"

\* character.stl is absent, unreadable, of zero length, corrupt, or holds
\* no triangle
AuxUnusable ==
    \/ auxFile.state \in {"absent", "unreadable"}
    \/ auxFile.empty
    \/ /\ auxFile.format = "binary"
       /\ auxFile.declared = 0 \/ Len(auxFile.triangles) < auxFile.declared
    \/ /\ auxFile.format = "text"
       /\ \E i \in 1..Len(auxFile.lines) :
             \/ auxFile.lines[i].prefix = "vertex" /\ Len(auxFile.lines[i].fields) < 4
             \/ auxFile.lines[i].prefix = "facet normal"
                   /\ Len(auxFile.lines[i].fields) < 5

\* C9: with an unusable character.stl and the logging succeeding,
\* GenerateSTLRange goes on, appends no auxiliary triangle, calls
\* WriteSTLBinary with exactly the mesh of generateModelGeometry and, the
\* write succeeding, returns nil.
C9_UnusableCharacterIsSkipped ==
    (CharacterExamined /\ AuxUnusable /\ ~logFailed) =>
        /\ pc # "panicked"
        /\ character = <<>>
        /\ modelTriangles = gret.triangles
        /\ pc = "returned" =>
              /\ writeCalls = 1
              /\ ret.kind # "FileError" =>
                    /\ ret = NoErr
                    /\ file = [state |-> "complete", triangles |-> gret.triangles]

\* the Z coordinates of the vertices of the merged auxiliary mesh
CharacterZ ==
    UNION { { character[i].V1.Z, character[i].V2.Z, character[i].V3.Z } :
                i \in 1..Len(character) }

\* C10 as claimed: the merged auxiliary mesh has its lowest vertex on z = 0.
C10_CharacterSitsOnZero ==
    character # <<>> =>
        /\ \A z \in CharacterZ : z >= 0
        /\ 0 \in CharacterZ

\* C10 as amended: the merged auxiliary mesh is translated in Z by
\* -minZ - 0.5 of its scaled bounding box, so that its lowest vertex is
\* 0.5 mm below z = 0.
C10_CharacterSinksHalfAMillimetre ==
    character # <<>> =>
        /\ \A z \in CharacterZ : z >= 0 - 500
        /\ (0 - 500) \in CharacterZ
        /\ LET scaled == scaleTriangles(ReadCharacter(auxFile).triangles, 7)
               minZ == calcBoundingBox(scaled).minZ
           IN  /\ Len(character) = Len(scaled)
               /\ \A i \in 1..Len(scaled) :
                     /\ character[i].V1.Z = scaled[i].V1.Z - minZ - 500
                     /\ character[i].V2.Z = scaled[i].V2.Z - minZ - 500
                     /\ character[i].V3.Z = scaled[i].V3.Z - minZ - 500

\* a binary character.stl of two triangles was merged
C10_Witness ==
    /\ Len(character) = 2
    /\ auxFile.format = "binary"
    /\ calcBoundingBox(character).minZ = 0 - 500
    /\ modelTriangles = gret.triangles \o character
    /\ file.state = "complete"
    /\ file.triangles = modelTriangles

\* the elements of a sequence
Range(seq) == { seq[i] : i \in 1..Len(seq) }

\* the call of fn has returned
Returned(fn) == call.fn = fn /\ call.done

\* every coordinate of the vertices of t is that of s multiplied by scale
\* (in tenths)
VerticesScaled(s, t, scale) ==
    \A v \in {"V1", "V2", "V3"} :
        /\ 10 * t[v].X = s[v].X * scale
        /\ 10 * t[v].Y = s[v].Y * scale
        /\ 10 * t[v].Z = s[v].Z * scale

\* C11 as claimed: scaleTriangles returns a mesh of the same length and
\* order with every vertex coordinate and every normal component multiplied
\* by the factor, and leaves its argument as it was.
C11_ScaleMultipliesVerticesAndNormals ==
    Returned("scaleTriangles") =>
        /\ Len(call.out) = Len(call.in.triangles)
        /\ \A i \in 1..Len(call.out) :
              /\ VerticesScaled(call.in.triangles[i], call.out[i], call.in.scale)
              /\ 10 * call.out[i].Normal.X = call.in.triangles[i].Normal.X * call.in.scale
              /\ 10 * call.out[i].Normal.Y = call.in.triangles[i].Normal.Y * call.in.scale
              /\ 10 * call.out[i].Normal.Z = call.in.triangles[i].Normal.Z * call.in.scale
        /\ call.in \in { c.in : c \in ScaleCalls }

\* C11 as amended: scaleTriangles returns a mesh of the same length and
\* order with every vertex coordinate multiplied by the factor and every
\* normal copied unchanged, and leaves its argument as it was.
C11_ScaleMultipliesVerticesOnly ==
    Returned("scaleTriangles") =>
        /\ Len(call.out) = Len(call.in.triangles)
        /\ \A i \in 1..Len(call.out) :
              /\ VerticesScaled(call.in.triangles[i], call.out[i], call.in.scale)
              /\ call.out[i].Normal = call.in.triangles[i].Normal
        /\ call.in \in { c.in : c \in ScaleCalls }

\* a mesh of two triangles scaled to 70 %
C11_Witness ==
    /\ Returned("scaleTriangles")
    /\ call.in.scale = 7
    /\ Len(call.in.triangles) = 2
    /\ call.out # call.in.triangles
    /\ call.out[1].Normal = call.in.triangles[1].Normal

\* the coordinates of the vertices of the argument of calcBoundingBox
BoxX == UNION { { t.V1.X, t.V2.X, t.V3.X } : t \in Range(call.in.triangles) }
BoxY == UNION { { t.V1.Y, t.V2.Y, t.V3.Y } : t \in Range(call.in.triangles) }
BoxZ == UNION { { t.V1.Z, t.V2.Z, t.V3.Z } : t \in Range(call.in.triangles) }

\* lo and hi are the least and the greatest element of S
Extrema(lo, hi, S) ==
    /\ lo \in S
    /\ hi \in S
    /\ \A v \in S : lo <= v /\ v <= hi

\* C12: for a non-empty mesh calcBoundingBox returns on every axis the exact
\* minimum and maximum over all vertices; for an empty mesh it returns a box
\* with min > max on every axis, and GenerateSTLRange never calls it on an
\* empty mesh.
C12_BoundingBoxIsExact ==
    Returned("calcBoundingBox") =>
        IF call.in.triangles # <<>>
        THEN /\ Extrema(call.out.minX, call.out.maxX, BoxX)
             /\ Extrema(call.out.minY, call.out.maxY, BoxY)
             /\ Extrema(call.out.minZ, call.out.maxZ, BoxZ)
        ELSE /\ call.out.minX > call.out.maxX
             /\ call.out.minY > call.out.maxY
             /\ call.out.minZ > call.out.maxZ
             /\ pc = "none"

\* GenerateSTLRange has computed the box of a scaled auxiliary mesh of two
\* triangles
C12_Witness ==
    /\ Returned("calcBoundingBox")
    /\ pc \notin {"none", "character"}
    /\ Len(call.in.triangles) = 2
    /\ call.out.minZ < call.out.maxZ
    /\ call.out.minZ \in BoxZ
    /\ character # <<>>

\* calcBoundingBox was called on its own on the empty mesh
C12_WitnessEmpty ==
    /\ Returned("calcBoundingBox")
    /\ call.in.triangles = <<>>
    /\ call.out.minX = MaxFloat64
    /\ call.out.maxX = 0 - MaxFloat64

\* the greatest element of a non-empty set of numbers
Greatest(S) == CHOOSE m \in S : \A x \in S : x <= m

\* the elements of a finite set of numbers in increasing order
Ascending(S) ==
    [k \in 1..Cardinality(S) |->
        CHOOSE x \in S : Cardinality({ y \in S : y < x }) = k - 1]

\* the lines of the file ReadASCIISTL was called on
AsciiLines == call.in.file.lines

\* the number in field k of a line, 0 where it is malformed or missing
Lenient(fields, k) ==
    IF k <= Len(fields) /\ fields[k].ok THEN fields[k].val ELSE 0

LenientPoint(fields, k) ==
    Point3D(Lenient(fields, k), Lenient(fields, k + 1), Lenient(fields, k + 2))

FacetEnds == { e \in 1..Len(AsciiLines) : AsciiLines[e].prefix = "endfacet" }

\* the vertex lines since the endfacet before line e (or the file start)
VertexLinesOf(e) ==
    { j \in 1..(e - 1) :
        /\ AsciiLines[j].prefix = "vertex"
        /\ \A k \in FacetEnds : k < e => k < j }

\* the normal of the most recent facet normal line before line e
NormalAt(e) ==
    LET ns == { j \in 1..e : AsciiLines[j].prefix = "facet normal" }
    IN  IF ns = {} THEN Point3D(0, 0, 0)
        ELSE LenientPoint(AsciiLines[Greatest(ns)].fields, 3)

\* the triangles the file holds: one per endfacet that closes a record of
\* exactly three vertex lines, in file order
ExpectedFacets ==
    LET es == Ascending({ e \in FacetEnds : Cardinality(VertexLinesOf(e)) = 3 })
    IN  [i \in 1..Len(es) |->
            LET vs == Ascending(VertexLinesOf(es[i]))
            IN  Triangle(NormalAt(es[i]),
                         LenientPoint(AsciiLines[vs[1]].fields, 2),
                         LenientPoint(AsciiLines[vs[2]].fields, 2),
                         LenientPoint(AsciiLines[vs[3]].fields, 2))]

\* C13: over any sequence of lines ReadASCIISTL emits one triangle per
\* endfacet line that closes a record of exactly three vertex lines, with
\* those vertices in file order and the normal of the most recent facet
\* normal line, nothing for a record of fewer or more vertices, and the
\* triangles in file order.
C13_OneTrianglePerCompleteFacet ==
    Returned("ReadASCIISTL") => call.out.triangles = ExpectedFacets

\* no line of the file has too few fields for the reader
FieldsSuffice ==
    \A i \in 1..Len(AsciiLines) :
        /\ AsciiLines[i].prefix = "vertex" => Len(AsciiLines[i].fields) >= 4
        /\ AsciiLines[i].prefix = "facet normal" => Len(AsciiLines[i].fields) >= 5

\* what holds of C13: the same over the files whose vertex and facet normal
\* lines have all their fields
C13_OneTrianglePerCompleteFacetOfFullLines ==
    (Returned("ReadASCIISTL") /\ FieldsSuffice) =>
        /\ call.out.triangles = ExpectedFacets
        /\ ~call.out.panicked
        /\ ~IsErr(call.out.err)

\* C14: no line with a malformed numeric part, one of too few fields
\* included, aborts or crashes the read: the bad field is read as 0 and the
\* rest of the file is parsed.
C14_MalformedLinesAreReadAsZero ==
    Returned("ReadASCIISTL") =>
        /\ ~call.out.panicked
        /\ ~IsErr(call.out.err)
        /\ Len(call.out.triangles) = Len(ExpectedFacets)
        /\ \A i \in 1..Len(call.out.triangles) :
              << call.out.triangles[i].V1, call.out.triangles[i].V2,
                 call.out.triangles[i].V3 >>
                 = << ExpectedFacets[i].V1, ExpectedFacets[i].V2, ExpectedFacets[i].V3 >>

\* what holds of C14: a malformed number in a line that has all its fields
\* is read as 0 and the facet of the line is emitted
C14_WitnessMalformedNumber ==
    /\ Returned("ReadASCIISTL")
    /\ FieldsSuffice
    /\ Len(call.out.triangles) = 1
    /\ call.out.triangles[1].V2 = Point3D(40, 0, 60)
    /\ call.out.triangles[1].Normal = Point3D(0, 20, 0)

\* the active cells of the first year's grid
ActiveCells ==
    { i \in 1..Len(Cells(args.contributions[1])) :
        Cells(args.contributions[1])[i].cell.ContributionCount > 0 }

\* the front-face voxels of the username and of the caption, as Create3DText
\* renders them with its fonts loaded
UsernameVoxels ==
    renderText(args.username, "left", 100, 120, dimensions.innerWidth, BaseHeight,
               "primary").triangles

CaptionVoxels ==
    renderText(Digits(args.endYear), "right", 970, 100, dimensions.innerWidth,
               BaseHeight, "primary").triangles

\* a generation of one year with a username, no top or right text, no logo
\* and nothing that failed but the logo
PlainSingleYear ==
    /\ FanInSucceeded
    /\ Len(args.contributions) = 1
    /\ args.username # <<>>
    /\ args.topText = <<>>
    /\ args.rightText = <<>>
    /\ ~IsErr(geomErr["base"])
    /\ ~IsErr(geomErr["columns"])
    /\ ~IsErr(geomErr["text"])
    /\ result["image"].triangles = <<>>

\* C15 as claimed: in a single-year generation with a username, no top or right text
\* and no logo, the text part of the mesh is the voxels of the username
\* followed by those of the year caption, and the mesh has 12 triangles for
\* the base, 12 per active cell and those of the two texts.
C15_TextIsUsernameThenCaption ==
    PlainSingleYear =>
        /\ result["text"].triangles = UsernameVoxels \o CaptionVoxels
        /\ Len(gret.triangles) =
              TrianglesPerBox + TrianglesPerBox * Cardinality(ActiveCells)
                  + Len(UsernameVoxels) + Len(CaptionVoxels)

\* C15 as amended: in that generation the username is not rendered (the
\* text producer is handed an empty username): the text part of the mesh is
\* the voxels of the year caption alone, not empty and without error, and
\* the mesh has 12 triangles for the base, 12 per active cell and those of
\* the caption.
C15_TextIsCaptionOnly ==
    PlainSingleYear =>
        /\ UsernameVoxels # <<>>
        /\ result["text"] = GeometryResult(CaptionVoxels, NoErr)
        /\ CaptionVoxels # <<>>
        /\ Len(gret.triangles) =
              TrianglesPerBox + TrianglesPerBox * Cardinality(ActiveCells)
                  + Len(CaptionVoxels)

\* such a generation has written its file
C15_Witness ==
    /\ PlainSingleYear
    /\ Cardinality(ActiveCells) = 2
    /\ Len(gret.triangles) = 3 * TrianglesPerBox + Len(CaptionVoxels)
    /\ Len(CaptionVoxels) = 4 * TrianglesPerBox
    /\ file.state = "complete"
    /\ pc = "returned"

(***************************************************************************)
(* The columns of a year.                                                  *)
(***************************************************************************)
\* the cells of the grid handed to CreateContributionGeometry that hold a
\* contribution, as << week index, day index >> counted from 0
ActiveOf(grid) ==
    UNION { { << w, d >> : d \in { e \in 0..(Len(grid[w + 1]) - 1) :
                                      grid[w + 1][e + 1].ContributionCount > 0 } } :
            w \in 0..(Len(grid) - 1) }

\* a comes before b in week-major, then day order
Before(a, b) == a[1] < b[1] \/ (a[1] = b[1] /\ a[2] < b[2])

\* the place of the active cell a among the active cells of the grid
RankOf(a, grid) == Cardinality({ b \in ActiveOf(grid) : Before(b, a) }) + 1

\* the k-th box of a mesh of boxes
BoxAt(mesh, k) == SubSeq(mesh, TrianglesPerBox * (k - 1) + 1, TrianglesPerBox * k)

CoordsX(mesh) == UNION { { t.V1.X, t.V2.X, t.V3.X } : t \in Range(mesh) }
CoordsY(mesh) == UNION { { t.V1.Y, t.V2.Y, t.V3.Y } : t \in Range(mesh) }
CoordsZ(mesh) == UNION { { t.V1.Z, t.V2.Z, t.V3.Z } : t \in Range(mesh) }

\* the box stands on the square of side CellSize with corner (x, y)
StandsOn(box, x, y) ==
    /\ Len(box) = TrianglesPerBox
    /\ Extrema(x, x + CellSize, CoordsX(box))
    /\ Extrema(y, y + CellSize, CoordsY(box))
    /\ \E h \in CoordsZ(box) : h > 0 /\ Extrema(0, h, CoordsZ(box))

\* the footprints of two boxes share no inner point
Apart(b1, b2) ==
    \/ \A u \in CoordsX(b1), v \in CoordsX(b2) : u <= v
    \/ \A u \in CoordsX(b1), v \in CoordsX(b2) : v <= u
    \/ \A u \in CoordsY(b1), v \in CoordsY(b2) : u <= v
    \/ \A u \in CoordsY(b1), v \in CoordsY(b2) : v <= u

\* CreateContributionGeometry has returned from a call in which no
\* CreateColumn fails
ColumnsReturned ==
    /\ Returned("CreateContributionGeometry")
    /\ call.in.failing \cap ActiveOf(call.in.contributions) = {}

\* C16: CreateContributionGeometry produces exactly one column box for every
\* cell with a contribution and none for a cell without, in week-major then
\* day order; the box of cell (w, d) of the year at depth offset D stands on
\* the square with corner (w * CellSize, D + d * CellSize), and the
\* footprints of two columns do not overlap.
C16_OneColumnPerActiveCell ==
    ColumnsReturned =>
        LET grid == call.in.contributions
            D == call.in.yearIndex * (YearOffset + YearSpacing)
            n == Cardinality(ActiveOf(grid))
        IN  /\ Len(call.out) = TrianglesPerBox * n
            /\ \A a \in ActiveOf(grid) :
                   StandsOn(BoxAt(call.out, RankOf(a, grid)),
                            a[1] * CellSize, D + a[2] * CellSize)
            /\ \A j, k \in 1..n :
                   j # k => Apart(BoxAt(call.out, j), BoxAt(call.out, k))

\* the columns of a later year whose grid has three active cells in two
\* weeks and a cell without a contribution
C16_Witness ==
    /\ ColumnsReturned
    /\ call.in.yearIndex = 1
    /\ Len(call.in.contributions) = 2
    /\ Cardinality(ActiveOf(call.in.contributions)) = 3
    /\ Len(call.in.contributions[1]) = 2
    /\ call.in.contributions[1][1].ContributionCount = 0
    /\ Len(call.out) = 3 * TrianglesPerBox

(***************************************************************************)
(* The depth of the years.                                                 *)
(***************************************************************************)
\* the columns producer has returned from a call in which nothing fails
ProducerReturned ==
    /\ Returned("generateColumnsForYearRange")
    /\ call.in.failing = {}
    /\ \A k \in 1..Len(call.in.years) : call.in.columns[k] = NoColumnFailure

\* the box has the height of the columns of the year
OfYear(box, year) ==
    LET h == NormalizeContribution(year - 2020, call.in.maxContrib)
    IN  Extrema(0, h, CoordsZ(box))

\* the year that is i steps older than the most recent one has its two
\* columns at depth offset i * (YearOffset + YearSpacing), and they are the
\* i-th pair of boxes of the mesh
DepthFollowsAge ==
    LET years == call.in.years
        mesh == call.out.triangles
        recent == CHOOSE y \in Range(years) : \A z \in Range(years) : z <= y
    IN  /\ Len(mesh) = 2 * TrianglesPerBox * Len(years)
        /\ \A y \in Range(years) :
               LET i == recent - y
                   D == i * (YearOffset + YearSpacing)
               IN  /\ i \in 0..(Len(years) - 1)
                   /\ StandsOn(BoxAt(mesh, 2 * i + 1), 0, D)
                   /\ StandsOn(BoxAt(mesh, 2 * i + 2), 0, D + CellSize)
                   /\ OfYear(BoxAt(mesh, 2 * i + 1), y)
                   /\ OfYear(BoxAt(mesh, 2 * i + 2), y)

\* the list of years is in the order in which GenerateSkyline appends them
AsGenerateSkylinePasses ==
    call.in.years = YearRange(call.in.years[1], call.in.years[Len(call.in.years)])

\* C17 as claimed: the most recent year has depth index 0, the year i steps
\* older depth offset i * (YearOffset + YearSpacing), and the column mesh
\* lists the years from nearest to farthest, whether the list of years is
\* ascending or most recent first.
C17_MostRecentYearIsNearest ==
    ProducerReturned => DepthFollowsAge

\* C17 as amended: the same, for the ascending list of years that
\* GenerateSkyline passes; the depth index of a year is its distance from
\* the end of the list.
C17_LastYearOfListIsNearest ==
    ProducerReturned =>
        /\ AsGenerateSkylinePasses => DepthFollowsAge
        /\ \A k \in 1..Len(call.in.years) :
               LET i == Len(call.in.years) - k
               IN  /\ StandsOn(BoxAt(call.out.triangles, 2 * i + 1), 0,
                               i * (YearOffset + YearSpacing))
                   /\ OfYear(BoxAt(call.out.triangles, 2 * i + 1), call.in.years[k])

\* the producer was handed the grids of 2021 and 2022 in this order
C17_Witness ==
    /\ ProducerReturned
    /\ call.in.years = << 2021, 2022 >>
    /\ AsGenerateSkylinePasses
    /\ Len(call.out.triangles) = 4 * TrianglesPerBox
    /\ OfYear(BoxAt(call.out.triangles, 1), 2022)

\* the producer was handed the same grids most recent year first
C17_WitnessRecentFirst ==
    /\ ProducerReturned
    /\ call.in.years = << 2022, 2021 >>
    /\ OfYear(BoxAt(call.out.triangles, 1), 2021)
    /\ StandsOn(BoxAt(call.out.triangles, 1), 0, 0)

(***************************************************************************)
(* A column that cannot be built.                                          *)
(***************************************************************************)
\* the places in the list of the years in which a column fails
YearsWithFailure ==
    { k \in 1..Len(call.in.years) : call.in.columns[k].failing # {} }

\* the columns producer has returned from a call in which the CreateColumn
\* of one cell of one year fails and the warning is logged
OneColumnFailed ==
    /\ Returned("generateColumnsForYearRange")
    /\ call.in.failing = {}
    /\ Cardinality(YearsWithFailure) = 1
    /\ \A k \in YearsWithFailure :
           /\ call.in.columns[k].logOk
           /\ Cardinality(call.in.columns[k].failing) = 1
           /\ call.in.columns[k].failing \subseteq ActiveOf(call.in.contributionsPerYear[k])

\* the boxes of a mesh of boxes
BoxesOf(mesh) == { BoxAt(mesh, k) : k \in 1..(Len(mesh) \div TrianglesPerBox) }

FontLoads(font) == font \in {"primary", "fallback"}

\* a voxel of the face is a box of positive extents
VoxelFits(face, height) == face.baseWidth > 0 /\ height > 0

\* the image has a pixel that renderImage turns into a voxel
HasActivePixel(img) ==
    /\ img.status = "ok"
    /\ \E x \in 0..(img.w - 1), y \in 0..(img.h - 1) :
           img.px[<<x, y>>].a > 32768 /\ img.px[<<x, y>>].r > 32768

\* a render call has returned in which the construction of a voxel has failed
VoxelFailed ==
    \/ /\ Returned("renderText") \/ Returned("renderTextOnTop")
       /\ FontLoads(call.in.font)
       /\ call.in.text # <<>>
       /\ ~VoxelFits(call.in.face, voxelDepth)
    \/ /\ Returned("renderImage")
       /\ HasActivePixel(call.in.img)
       /\ ~VoxelFits(call.in.face, call.in.height)

\* one of the renders of a Create3DText call that has returned has failed
RenderFailed ==
    /\ Returned("Create3DText")
    /\ \/ ~VoxelFits(call.in.face, voxelDepth)
       \/ call.in.username # <<>> /\ ~FontLoads(call.in.fonts.user)
       \/ ~FontLoads(call.in.fonts.year)
       \/ call.in.additionalText # <<>> /\ ~FontLoads(call.in.fonts.top)

\* C18: when the construction of a voxel box fails in renderText,
\* renderTextOnTop or renderImage, the function returns an STLError and no
\* triangles; and Create3DText returns an error and no triangles when one of
\* its renders fails, whatever the others produced.
C18_RasterizerIsAllOrNothing ==
    /\ VoxelFailed =>
           /\ call.out.triangles = <<>>
           /\ call.out.err.kind = "STLError"
           /\ Head(call.out.err.chain) = "failed to create cube"
    /\ RenderFailed =>
           /\ call.out.triangles = <<>>
           /\ IsErr(call.out.err)
    /\ call.done /\ call.fn \in {"renderText", "renderTextOnTop", "renderImage", "Create3DText"} =>
           (IsErr(call.out.err) => call.out.triangles = <<>>)

\* renderImage has failed on the voxel of a logo
C18_Witness ==
    /\ VoxelFailed
    /\ call.fn = "renderImage"
    /\ call.in.height = 0
    /\ call.in.face.baseWidth > 0
    /\ call.out.err.kind = "STLError"

\* renderText has failed on the first voxel of a text of two characters
C18_WitnessText ==
    /\ VoxelFailed
    /\ call.fn = "renderText"
    /\ Len(call.in.text) = 2
    /\ call.out.err.kind = "STLError"

\* Create3DText has failed on its top text after the username and the
\* caption were rendered
C18_WitnessCreate3DText ==
    /\ RenderFailed
    /\ call.in.username # <<>>
    /\ call.in.additionalText # <<>>
    /\ VoxelFits(call.in.face, voxelDepth)
    /\ FontLoads(call.in.fonts.user)
    /\ FontLoads(call.in.fonts.year)
    /\ call.in.fonts.top = "none"
    /\ call.out.triangles = <<>>
    /\ call.out.err.kind = "IOError"
    /\ renderText(call.in.username, "left", 100, 120, call.in.face.baseWidth, call.in.face.baseHeight, "primary").triangles # <<>>

(***************************************************************************)
(* The month filter.                                                       *)
(***************************************************************************)
\* the day has a date that parses and whose month is in the range
InMonthRange(day) ==
    /\ ParseDate(day.Date).ok
    /\ call.in.startMonth <= ParseDate(day.Date).month
    /\ ParseDate(day.Date).month <= call.in.endMonth

\* the filter returns the weeks of its input, each cut down to its days in
\* the month range, without the weeks cut down to nothing
FilterIsExact ==
    LET grid == call.in.contributions
        kept == [w \in 1..Len(grid) |-> SelectSeq(grid[w], InMonthRange)]
        NotEmpty(week) == week # <<>>
    IN  /\ call.out = SelectSeq(kept, NotEmpty)
        /\ \A w \in 1..Len(call.out) : call.out[w] # <<>>
        /\ Flatten(call.out) = SelectSeq(Flatten(grid), InMonthRange)

\* GenerateSTL was handed an empty grid by GenerateSkyline and has returned
EmptyGridReturned ==
    /\ call.fn = "GenerateSTL"
    /\ call.in.contributions = <<>>
    /\ pc = "returned"

\* C20 as claimed: filterContributionsByMonth returns exactly the days whose
\* date parses to a month in [startMonth, endMonth], in their order, with
\* the weeks left without days removed; and GenerateSTL rejects the empty
\* grid of a month range without a day with a ValidationError.
C20_FilterKeepsMonthRange ==
    /\ Returned("filterContributionsByMonth") => FilterIsExact
    /\ EmptyGridReturned => ret.kind = "ValidationError"

\* C20 as amended: the same filter; GenerateSTL rejects the empty grid
\* before anything is launched or written, with the ValidationError of
\* validateInput unless its opening debug message cannot be logged, when
\* the error is that of the logger.
C20_FilterKeepsMonthRangeAndEmptyGridIsRejected ==
    /\ Returned("filterContributionsByMonth") => FilterIsExact
    /\ EmptyGridReturned =>
           /\ NothingLaunchedOrWritten
           /\ IF logFailed
              THEN ret = Wrap(LogErr, "failed to log debug message")
              ELSE /\ ret.kind = "ValidationError"
                   /\ Head(ret.chain) = "input validation failed"

\* the filter has dropped a day of another month, a day whose date does
\* not parse and a whole week
C20_Witness ==
    /\ Returned("filterContributionsByMonth")
    /\ call.in.startMonth = 6
    /\ call.in.endMonth = 12
    /\ Len(call.in.contributions) = 2
    /\ Len(call.in.contributions[1]) = 3
    /\ call.in.contributions[1][2].Date = Feb30
    /\ call.in.contributions[2] = << ContributionDay(Jun1Short, 1), ContributionDay(Month13, 1) >>
    /\ call.out = << << ContributionDay(Jun01, 1), ContributionDay(Dec31, 1) >> >>

\* GenerateSTL has rejected the grid of a month range without a day
C20_WitnessEmptyGrid ==
    /\ EmptyGridReturned
    /\ ~logFailed
    /\ ret.kind = "ValidationError"

\* GenerateSTL could not log its opening message for such a grid
C20_WitnessLogFailed ==
    /\ EmptyGridReturned
    /\ logFailed
    /\ ret.kind = "LogError"

(***************************************************************************)
(* An empty list of years.                                                 *)
(***************************************************************************)
\* GenerateSTLRange was called with no year
NoYears == pc # "none" /\ Len(args.contributions) = 0

\* C21: GenerateSTLRange called with an empty sequence of years does not
\* crash: it returns a ValidationError, the checks for zero years being
\* reached before any access to contributions[0].
C21_NoYearsGiveValidationError ==
    NoYears =>
        /\ pc # "panicked"
        /\ pc = "returned" /\ ~logFailed => ret.kind = "ValidationError"

\* with no year and the opening message logged, GenerateSTLRange has
\* crashed on contributions[0]
C21_WitnessPanicked ==
    /\ NoYears
    /\ ~logFailed
    /\ pc = "panicked"
    /\ dimensions = NoDimensions
    /\ NothingLaunchedOrWritten

\* with no year GenerateSTLRange returns only when its opening message
\* cannot be logged; calculateDimensions and generateModelGeometry are not
\* reached
C21_NoYearsNeverReachTheChecks ==
    NoYears =>
        /\ pc \in {"start", "validate", "panicked", "returned"}
        /\ pc = "returned" => logFailed /\ ret.kind = "LogError"

(***************************************************************************)
(* The output file.                                                        *)
(***************************************************************************)
\* GenerateSTLRange has returned an error
Failed == pc = "returned" /\ IsErr(ret)

\* validation, the calculation of the dimensions and the fan-in have
\* succeeded
StagesSucceeded ==
    /\ Len(args.contributions) > 0
    /\ ~InvalidInput
    /\ dimensions = calculateDimensions(Len(args.contributions)).dims
    /\ ~IsErr(gret.err)
    /\ gret.triangles = Flatten([k \in 1..Len(MergeOrder) |-> result[MergeOrder[k]].triangles])
    /\ \A p \in Producers : closed[p] /\ ~IsErr(result[p].err)

\* WriteSTLBinary is called at most once and only after the stages before
\* it have succeeded
WrittenOnlyAfterSuccess ==
    /\ writeCalls <= 1
    /\ writeCalls = 1 => StagesSucceeded
    /\ file # NoOutput => writeCalls = 1

\* C22 as claimed: WriteSTLBinary is called at most once and only after
\* validation, dimension calculation and fan-in have succeeded, and whenever
\* GenerateSTLRange returns an error the output file has not been created
\* or overwritten.
C22_FileWrittenIffSuccess ==
    /\ WrittenOnlyAfterSuccess
    /\ Failed => file = NoOutput
    /\ pc = "returned" /\ ~IsErr(ret) => file.state = "complete"

\* C22 as amended: the same, except that an error returned after the call
\* of WriteSTLBinary leaves a file behind: the complete file when the
\* closing message cannot be logged, whatever WriteSTLBinary left when it
\* failed itself.
C22_FileWrittenBeforeLastMessage ==
    /\ WrittenOnlyAfterSuccess
    /\ Failed /\ writeCalls = 0 => file = NoOutput
    /\ Failed /\ writeCalls = 1 =>
           \/ /\ ret = Wrap(LogErr, "failed to log info message")
              /\ file = [state |-> "complete", triangles |-> modelTriangles]
           \/ /\ ret = Wrap(FileErr, "failed to write STL file")
              /\ file.state # "complete"
    /\ pc = "returned" /\ ~IsErr(ret) =>
           file = [state |-> "complete", triangles |-> modelTriangles]

\* GenerateSTLRange has written the file and returned the error of its
\* closing message
C22_Witness ==
    /\ Failed
    /\ ret = Wrap(LogErr, "failed to log info message")
    /\ writeCalls = 1
    /\ file.state = "complete"
    /\ Len(file.triangles) > TrianglesPerBox

\* GenerateSTLRange has written the file and returned no error
C22_WitnessSuccess ==
    /\ pc = "returned"
    /\ ~IsErr(ret)
    /\ file.state = "complete"
    /\ character # <<>>

(***************************************************************************)
(* The close of the channels.                                              *)
(***************************************************************************)
\* a producer that may still send: it has not yet handed over its result
MaySend(p) == task[p] \in {"running", "sending"}

\* a closed channel is one whose result was received and whose producer is
\* done, as are all the others
ClosedAfterAllDone ==
    \A p \in Producers :
       closed[p] =>
          /\ next > Len(MergeOrder)
          /\ wg = 0
          /\ \A q \in Producers : task[q] = "done" /\ sends[q] = 1 /\ ~MaySend(q)

\* a step that closes a channel closes the four of them, open until then,
\* after wg.Wait() has returned; a closed channel stays closed and takes
\* no further send
ClosedOnce ==
    /\ (\E p \in Producers : closed'[p] # closed[p]) =>
           /\ pc = "close"
           /\ wg = 0
           /\ \A p \in Producers : ~closed[p] /\ closed'[p]
    /\ \A p \in Producers : closed[p] => sends'[p] = sends[p] /\ task'[p] = task[p]

\* C23: in every interleaving of generateModelGeometry no producer sends on
\* a closed channel and no channel is closed twice: the channels are closed
\* only after the four results have been received and wg.Wait() has seen
\* the four producers done, and each is closed at most once.
C23_ChannelsClosedOnceAfterAllDone ==
    /\ []ClosedAfterAllDone
    /\ [][ClosedOnce]_vars

\* the four channels are closed, each after one send
C23_Witness ==
    /\ \A p \in Producers : closed[p] /\ sends[p] = 1 /\ task[p] = "done"
    /\ wg = 0
    /\ pc = "character"
    /\ Len(gret.triangles) > TrianglesPerBox

====
